---- MODULE Spec2Model ----
(***************************************************************************)
(* A model of the investor-profile parser (src/custom_parser.py).          *)
(*                                                                         *)
(* InvestorProfileParser(html, source_file).parse() reads one document     *)
(* twice: a structured pass over the embedded Apollo cache                 *)
(* (_parse_from_apollo_state) and a heuristic pass over the rendered HTML  *)
(* (_parse_from_html), and merges the two partial records.                 *)
(*                                                                         *)
(* Encoding of Python values:                                              *)
(*   None          <<>>            (None)                                  *)
(*   a str / int   <<v>>           (Some(v)), where the field is optional  *)
(*   a list        a sequence                                              *)
(*   a dict        a function whose domain is the set of its keys          *)
(*   a str that is scanned character by character (an amount) is a         *)
(*   sequence of one-character strings                                     *)
(***************************************************************************)
EXTENDS Integers, Sequences, FiniteSets, TLC

None == <<>>
Some(v) == <<v>>

\* Python truthiness of an optional str, of an optional int, of a list/dict.
TruthyStr(o) == o # None /\ o[1] # ""
TruthyInt(o) == o # None /\ o[1] # 0
TruthySeq(q) == q # <<>>

\* dict.get(key) on a dict modelled as a function; absent keys give None.
Get(d, k) == IF k \in DOMAIN d THEN d[k] ELSE None

\* A variant of DictUpdate: the record is replaced by the other dict.
DictUpdateReplacing(d, e) == e

\* dict.update(other): the keys of other are set, the others kept.
DictUpdate(d, e) ==
  [k \in (DOMAIN d) \cup (DOMAIN e) |-> IF k \in DOMAIN e THEN e[k] ELSE d[k]]

\* d[k] = v on a dict: the key is added when it is missing.
DictSet(d, k, v) == [x \in (DOMAIN d) \cup {k} |-> IF x = k THEN v ELSE d[x]]

(***************************************************************************)
(* _parse_amount (custom_parser.py 565-593).                               *)
(* An amount string is a sequence of characters.                           *)
(***************************************************************************)
DigitChars == {"0", "1", "2", "3", "4", "5", "6", "7", "8", "9"}

DigitVal(c) ==
  CASE c = "0" -> 0 [] c = "1" -> 1 [] c = "2" -> 2 [] c = "3" -> 3
    [] c = "4" -> 4 [] c = "5" -> 5 [] c = "6" -> 6 [] c = "7" -> 7
    [] c = "8" -> 8 [] c = "9" -> 9

RECURSIVE Pow10(_)
Pow10(n) == IF n = 0 THEN 1 ELSE 10 * Pow10(n - 1)

\* str.replace('$', '').replace(',', '')
RemoveSymbols(s) == SelectSeq(s, LAMBDA c : c \notin {"$", ","})

RECURSIVE LStrip(_)
LStrip(s) == IF s # <<>> /\ Head(s) = " " THEN LStrip(Tail(s)) ELSE s

RECURSIVE RStrip(_)
RStrip(s) ==
  IF s # <<>> /\ s[Len(s)] = " " THEN RStrip(SubSeq(s, 1, Len(s) - 1)) ELSE s

\* str.strip()
StripChars(s) == RStrip(LStrip(s))

RECURSIVE DigitsValue(_)
DigitsValue(s) ==
  IF s = <<>> THEN 0
  ELSE 10 * DigitsValue(SubSeq(s, 1, Len(s) - 1)) + DigitVal(s[Len(s)])

\* float(text) is [kind, neg, mant, frac], the value being
\* (-1)^neg * mant / 10^frac.  kind is "num", "inf" (float('inf') parses, int()
\* of it raises OverflowError) or "bad" (ValueError).
BadFloat == [kind |-> "bad", neg |-> FALSE, mant |-> 0, frac |-> 0]

\* The digits before and after the decimal point; one of them may be empty.
FloatOfParts(neg, ip, fp) ==
  IF ip = <<>> /\ fp = <<>> THEN BadFloat
  ELSE [kind |-> "num", neg |-> neg, mant |-> DigitsValue(ip \o fp),
        frac |-> Len(fp)]

\* u is the text without its sign, dots the places of its decimal points.
FloatOfDigits(neg, u, dots) ==
  IF u = <<"i", "n", "f">>
    THEN [kind |-> "inf", neg |-> neg, mant |-> 0, frac |-> 0]
  ELSE IF Cardinality(dots) > 1 THEN BadFloat
  ELSE IF \E i \in 1..Len(u) : u[i] \notin DigitChars \cup {"."} THEN BadFloat
  ELSE IF dots = {} THEN FloatOfParts(neg, u, <<>>)
  ELSE FloatOfParts(neg, SubSeq(u, 1, (CHOOSE i \in dots : TRUE) - 1),
                    SubSeq(u, (CHOOSE i \in dots : TRUE) + 1, Len(u)))

FloatOfUnsigned(neg, u) ==
  FloatOfDigits(neg, u, {i \in 1..Len(u) : u[i] = "."})

\* An optional sign, then the digits.
FloatOfStripped(t) ==
  FloatOfUnsigned(t # <<>> /\ Head(t) = "-",
                  IF t # <<>> /\ Head(t) \in {"-", "+"} THEN Tail(t) ELSE t)

\* float(text)
PyFloat(text) == FloatOfStripped(StripChars(text))

(***************************************************************************)
(* float() and the product at 585-589 are binary: a Python float is an     *)
(* IEEE 754 double, a number of at most MantBits significant bits, and     *)
(* both the conversion of the decimal text and the product are rounded to  *)
(* the nearest double (ties to even).  A natural number is written here as *)
(* the sequence of its bits, the most significant one first, and a double  *)
(* as the bits of its value times 2^Scale.                                 *)
(***************************************************************************)
MantBits == 53

Scale == MantBits + 27

RECURSIVE BitsOf(_)
BitsOf(n) == IF n = 0 THEN <<>> ELSE Append(BitsOf(n \div 2), n % 2)

RECURSIVE BitsValue(_)
BitsValue(b) ==
  IF b = <<>> THEN 0 ELSE 2 * BitsValue(SubSeq(b, 1, Len(b) - 1)) + b[Len(b)]

Zeros(k) == [i \in 1..k |-> 0]

\* The bits without their leading zeros.
RECURSIVE Normal(_)
Normal(b) == IF b # <<>> /\ Head(b) = 0 THEN Normal(Tail(b)) ELSE b

\* b * m, from the least significant bit on; st is [i, carry, acc].
RECURSIVE MulFrom(_, _, _)
MulFrom(b, m, st) ==
  IF st.i = 0 THEN BitsOf(st.carry) \o st.acc
  ELSE MulFrom(b, m, [i |-> st.i - 1,
                      carry |-> (b[st.i] * m + st.carry) \div 2,
                      acc |-> <<(b[st.i] * m + st.carry) % 2>> \o st.acc])

MulBits(b, m) == MulFrom(b, m, [i |-> Len(b), carry |-> 0, acc |-> <<>>])

\* b divided by d, from the most significant bit on; st is [i, r, q].
RECURSIVE DivFrom(_, _, _)
DivFrom(b, d, st) ==
  IF st.i > Len(b) THEN st
  ELSE DivFrom(b, d, [i |-> st.i + 1,
                      r |-> (2 * st.r + b[st.i]) % d,
                      q |-> Append(st.q, (2 * st.r + b[st.i]) \div d)])

DivBits(b, d) == DivFrom(b, d, [i |-> 1, r |-> 0, q |-> <<>>])

\* b + 1
RECURSIVE Incremented(_)
Incremented(b) ==
  IF b = <<>> THEN <<1>>
  ELSE IF b[Len(b)] = 0 THEN Append(SubSeq(b, 1, Len(b) - 1), 1)
  ELSE Append(Incremented(SubSeq(b, 1, Len(b) - 1)), 0)

\* The first MantBits bits are rounded up: the rest is more than half a unit of
\* the last kept bit, or exactly half and the last kept bit is odd.
RoundsUp(b, sticky) ==
  /\ b[MantBits + 1] = 1
  /\ \/ sticky
     \/ b[MantBits] = 1
     \/ \E i \in (MantBits + 2)..Len(b) : b[i] = 1

\* The nearest number of MantBits significant bits; b has no leading zero, and
\* sticky says that the exact value is above b.
Round53(b, sticky) ==
  IF Len(b) <= MantBits THEN b
  ELSE IF RoundsUp(b, sticky)
    THEN Incremented(SubSeq(b, 1, MantBits)) \o Zeros(Len(b) - MantBits)
  ELSE SubSeq(b, 1, MantBits) \o Zeros(Len(b) - MantBits)

RoundQuotient(qr) == Round53(Normal(qr.q), qr.r # 0)

\* float of the decimal mant / 10^frac
DoubleOf(mant, frac) ==
  RoundQuotient(DivBits(BitsOf(mant) \o Zeros(Scale), Pow10(frac)))

\* x * mult on doubles
TimesDouble(x, mult) == Round53(Normal(MulBits(x, mult)), FALSE)

\* int(x) of a double that is not negative
TruncDouble(x) == BitsValue(SubSeq(x, 1, Len(x) - Scale))

\* int(float(text) * mult) for the text of mant / 10^frac.  Without decimals
\* the float and the product are whole numbers below 2^MantBits, hence exact.
TruncProduct(mant, frac, mult) ==
  IF frac = 0 THEN mant * mult
  ELSE TruncDouble(TimesDouble(DoubleOf(mant, frac), mult))

\* int(f * mult): truncation towards zero.  [raised, val]: raised is an
\* exception that _parse_amount does not catch (592 names ValueError and
\* TypeError only).
IntOfFloat(f, mult) ==
  CASE f.kind = "bad" -> [raised |-> FALSE, val |-> None]
    [] f.kind = "inf" -> [raised |-> TRUE, val |-> None]
    [] f.neg -> [raised |-> FALSE,
                 val |-> Some(0 - TruncProduct(f.mant, f.frac, mult))]
    [] OTHER -> [raised |-> FALSE, val |-> Some(TruncProduct(f.mant, f.frac, mult))]

IntOfFloatTimes(text, mult) == IntOfFloat(PyFloat(text), mult)

\* 582-591, s being the string without its symbols, stripped.
AmountOfStripped(s) ==
  IF s = <<>> THEN IntOfFloatTimes(s, 1)
  ELSE CASE s[Len(s)] = "K" -> IntOfFloatTimes(SubSeq(s, 1, Len(s) - 1), 1000)
         [] s[Len(s)] = "M" -> IntOfFloatTimes(SubSeq(s, 1, Len(s) - 1), 1000000)
         [] s[Len(s)] = "B" -> IntOfFloatTimes(SubSeq(s, 1, Len(s) - 1), 1000000000)
         [] OTHER -> IntOfFloatTimes(s, 1)

\* 576-593
ParseAmount(amount_str) ==
  IF amount_str = <<>> THEN [raised |-> FALSE, val |-> None]
  ELSE AmountOfStripped(StripChars(RemoveSymbols(amount_str)))

(***************************************************************************)
(* Results of a step inside a try block: the data so far, and whether the  *)
(* step raised (the rest of the try block is then skipped).                *)
(***************************************************************************)
Ok(d) == [data |-> d, raised |-> FALSE]
Raise(d) == [data |-> d, raised |-> TRUE]

\* Sequencing inside a try block: F runs only when nothing raised before it.
Then(s, F(_, _), arg) == IF s.raised THEN s ELSE F(s.data, arg)

(***************************************************************************)
(* The structured pass: _parse_from_apollo_state (custom_parser.py         *)
(* 112-266).  The profile entity p is a record of its attributes; a typed  *)
(* reference {typename, id} is a record [st, ...] whose st says what the   *)
(* reference looks like in the cache:                                      *)
(*   "absent"      the attribute is missing, null or otherwise falsy       *)
(*   "null"        the key is present with value null                      *)
(*   "nondict"     a truthy value that is not an object (a string)         *)
(*   "notypename"  an object without "typename"                            *)
(*   "noid"        an object with "typename" and without "id"              *)
(*   "dangling"    well formed, its key is not in the cache                *)
(*   "ok"          well formed, its target entity is in the cache          *)
(***************************************************************************)
EmptyRange == [min |-> None, max |-> None, target |-> None]

\* The dict the structured pass starts from (119-134).
ApolloBaseData ==
  [name |-> None, position |-> None, firm |-> None, location |-> None,
   investment_range |-> EmptyRange,
   areas_of_interest |-> <<>>, not_interested_in |-> <<>>,
   investments |-> <<>>, investment_count |-> Some(0), links |-> <<>>]

\* link_type.replace('_url', '') for the six recognised attributes (157-160).
LinkTypes ==
  {"linkedin_url", "twitter_url", "facebook_url", "crunchbase_url",
   "angellist_url", "url"}

LinkName(t) ==
  CASE t = "linkedin_url" -> "linkedin" [] t = "twitter_url" -> "twitter"
    [] t = "facebook_url" -> "facebook" [] t = "crunchbase_url" -> "crunchbase"
    [] t = "angellist_url" -> "angellist" [] t = "url" -> "url"

\* 157-160: the truthy recognised link attributes of the person entity.
PersonLinks(person) ==
  LET present == {t \in LinkTypes \cap DOMAIN person.links :
                    TruthyStr(person.links[t])}
      names == {LinkName(t) : t \in present}
  IN [n \in names |->
        person.links[CHOOSE t \in present : LinkName(t) = n][1]]

\* 143-160: the person reference, the name and the links.
ApolloPerson(d, p) ==
  CASE p.person.st = "absent" -> Ok(d)
    [] p.person.st \in {"null", "nondict", "notypename", "noid"} -> Raise(d)
    [] p.person.st = "dangling" -> Ok(d)
    [] p.person.st = "ok" ->
         Ok([d EXCEPT !.name = p.person.name, !.links = PersonLinks(p.person)])

\* 162-163
ApolloPosition(d, p) == Ok([d EXCEPT !.position = p.position])

\* 165-171: the firm reference is followed only if it is an object with a
\* "typename"; its "id" is then read unguarded.
ApolloFirm(d, p) ==
  CASE p.firm.st \in {"absent", "null", "nondict", "notypename"} -> Ok(d)
    [] p.firm.st = "noid" -> Raise(d)
    [] p.firm.st = "dangling" -> Ok(d)
    [] p.firm.st = "ok" -> Ok([d EXCEPT !.firm = p.firm.name])

\* 173-179
ApolloLocation(d, p) ==
  CASE p.location.st \in {"absent", "null", "nondict", "notypename"} -> Ok(d)
    [] p.location.st = "noid" -> Raise(d)
    [] p.location.st = "dangling" -> Ok(d)
    [] p.location.st = "ok" -> Ok([d EXCEPT !.location = p.location.name])

\* 187-190 and 192-195: a str goes through _parse_amount, a number through int().
\* An amount attribute is [kind, s, n]: kind "absent", "str" (s) or "num" (n).
ApolloAmount(a) ==
  CASE a.kind = "str" -> ParseAmount(a.s)
    [] a.kind = "num" -> [raised |-> FALSE, val |-> Some(a.n)]
    [] OTHER -> [raised |-> FALSE, val |-> None]

\* 197-200: for the target a number is taken only when it is positive.
ApolloTarget(a) ==
  CASE a.kind = "str" -> ParseAmount(a.s)
    [] a.kind = "num" /\ a.n > 0 -> [raised |-> FALSE, val |-> Some(a.n)]
    [] OTHER -> [raised |-> FALSE, val |-> None]

\* 187-200: the three assignments, each made unless its amount raised.
RangeAssign(d, mn, mx, tg) ==
  IF mn.raised THEN Raise(d)
  ELSE IF mx.raised THEN Raise([d EXCEPT !.investment_range.min = mn.val])
  ELSE IF tg.raised
    THEN Raise([d EXCEPT !.investment_range.min = mn.val,
                         !.investment_range.max = mx.val])
  ELSE Ok([d EXCEPT !.investment_range.min = mn.val,
                    !.investment_range.max = mx.val,
                    !.investment_range.target = tg.val])

\* 181-200
ApolloRange(d, p) ==
  RangeAssign(d, ApolloAmount(p.min_investment), ApolloAmount(p.max_investment),
              ApolloTarget(p.target_investment))

\* [area.strip() for area in text.split(',')]: the text is the sequence of its
\* comma-separated items, each a sequence of characters.
SplitStrip(items) == [i \in 1..Len(items) |-> StripChars(items[i])]

\* 202-210
ApolloAreas(d, p) ==
  Ok([d EXCEPT
        !.areas_of_interest =
           IF TruthySeq(p.areas_of_interest_freeform)
             THEN SplitStrip(p.areas_of_interest_freeform) ELSE @,
        !.not_interested_in =
           IF TruthySeq(p.no_current_interest_freeform)
             THEN SplitStrip(p.no_current_interest_freeform) ELSE @])

(***************************************************************************)
(* One edge of investments_on_record (224-261).  An edge is                *)
(*   [node, company, funding_round, date, is_lead]                         *)
(* node: "missing" (a falsy edge, or one without "node"), "null", "dict".  *)
(***************************************************************************)
ApolloEdge(d, edge) ==
  IF edge.node = "missing" THEN Ok(d)
  ELSE IF edge.node = "null" THEN Raise(d)
  ELSE IF edge.company.st \in {"notypename", "noid"} THEN Raise(d)
  ELSE IF edge.funding_round.st \in {"notypename", "noid"} THEN Raise(d)
  ELSE IF edge.company.st = "ok" /\ TruthyStr(edge.company.name)
    THEN Ok([d EXCEPT !.investments =
               Append(@, [company |-> edge.company.name[1],
                          round |-> IF edge.funding_round.st = "ok"
                                      THEN edge.funding_round.round_name ELSE None,
                          date |-> edge.date,
                          amount |-> IF edge.funding_round.st = "ok"
                                          /\ TruthyInt(edge.funding_round.amount)
                                       THEN edge.funding_round.amount ELSE None,
                          is_lead |-> edge.is_lead])])
  ELSE Ok(d)

\* One iteration of the loop at 224, on the loop's [data, raised].
EdgeStep(s, edge) == IF s.raised THEN s ELSE ApolloEdge(s.data, edge)

\* 224: for edge in edges, from edge i on; an exception ends the loop.
RECURSIVE ApolloEdgesFrom(_, _, _)
ApolloEdgesFrom(s, edges, i) ==
  IF i > Len(edges) \/ s.raised THEN s
  ELSE ApolloEdgesFrom(EdgeStep(s, edges[i]), edges, i + 1)

\* 220: investments_ref.get("record_count", 0); record_count is [has, v].
DeclaredCount(ref) == IF ref.record_count.has THEN ref.record_count.v ELSE Some(0)

\* 223-261: edges is [st, list] with st "absent", "null" or "list".
EdgesLoop(d, ref) ==
  CASE ref.edges.st = "absent" -> Ok(d)
    [] ref.edges.st = "null" -> Raise(d)
    [] OTHER -> ApolloEdgesFrom(Ok(d), ref.edges.list, 1)

\* 212-261: investments_on_record is [st, record_count, edges].
ApolloInvestments(d, p) ==
  IF p.investments_on_record.st # "dict" THEN Ok(d)
  ELSE EdgesLoop([d EXCEPT !.investment_count =
                     DeclaredCount(p.investments_on_record)],
                 p.investments_on_record)

\* 136-261: the body of the try block, for a profile entity that is an object.
ApolloTry(p) ==
  LET s1 == ApolloPerson(ApolloBaseData, p)
      s2 == Then(s1, ApolloPosition, p)
      s3 == Then(s2, ApolloFirm, p)
      s4 == Then(s3, ApolloLocation, p)
      s5 == Then(s4, ApolloRange, p)
      s6 == Then(s5, ApolloAreas, p)
  IN Then(s6, ApolloInvestments, p)

\* A variant of ApolloExcept: the handler catches nothing.
ApolloExceptNone(s) == [data |-> s.data, escaped |-> s.raised]

\* 263-266: except Exception: log, and return the data filled so far.
\* [data, escaped]: escaped is an exception leaving the extractor.
ApolloExcept(s) == [data |-> s.data, escaped |-> FALSE]

\* 112-266.  graph is the decoded cache: [key, entity, profile], where key is the
\* profile key split on ':' and entity says what the key maps to: "empty" (a
\* falsy value), "nondict" (a truthy value that is no object) or "dict".
ParseFromApolloState(graph, investor_id) ==
  IF <<"PublicInvestorProfile", investor_id>> # graph.key \/ graph.entity = "empty"
    THEN [data |-> ApolloBaseData, escaped |-> FALSE]
  ELSE IF graph.entity = "nondict"
    THEN ApolloExcept(Raise(ApolloBaseData))
  ELSE ApolloExcept(ApolloTry(graph.profile))

(***************************************************************************)
(* The round-descriptor parsing of one rounds-cell div (470-523).  The     *)
(* div's text is a sequence of tokens: the bullet (U+2022, written "*"     *)
(* here), the separator " - ", one blank, and runs of text that hold       *)
(* neither a separator nor a blank at their ends.                          *)
(***************************************************************************)
Bullet == "*"
Dash == " - "
Space == " "

StageTokens == {"Seed", "Pre-Seed", "Series A", "Series B", "Angel"}
DateTokens == {"Jan 2020", "Mar 2021"}
AmountTokens == {"$5M", "$2K"}

RECURSIVE JoinTokens(_)
JoinTokens(ts) == IF ts = <<>> THEN "" ELSE Head(ts) \o JoinTokens(Tail(ts))

\* str.strip() on a token sequence: the blanks at both ends go, and a " - "
\* left at an end loses its outer blank, so it is a separator no more.
RECURSIVE LStripTokens(_)
LStripTokens(ts) ==
  IF ts # <<>> /\ Head(ts) = Space THEN LStripTokens(Tail(ts)) ELSE ts

RECURSIVE RStripTokens(_)
RStripTokens(ts) ==
  IF ts # <<>> /\ ts[Len(ts)] = Space
    THEN RStripTokens(SubSeq(ts, 1, Len(ts) - 1))
    ELSE ts

LEdge(t) == CASE t = Dash -> "- " [] t = " -" -> "-" [] OTHER -> t
REdge(t) == CASE t = Dash -> " -" [] t = "- " -> "-" [] OTHER -> t

EdgesStripped(ts) ==
  IF ts = <<>> THEN ts
  ELSE [i \in 1..Len(ts) |->
          IF i = 1 /\ i = Len(ts) THEN REdge(LEdge(ts[i]))
          ELSE IF i = 1 THEN LEdge(ts[i])
          ELSE IF i = Len(ts) THEN REdge(ts[i])
          ELSE ts[i]]

StripTokens(ts) == EdgesStripped(RStripTokens(LStripTokens(ts)))

\* [p.strip() for p in text.split(sep)]: the runs of tokens between the
\* occurrences of sep, each stripped and joined back into one string.
RECURSIVE SplitOn(_, _, _)
SplitOn(ts, sep, acc) ==
  IF ts = <<>> THEN <<JoinTokens(StripTokens(acc))>>
  ELSE IF Head(ts) = sep
    THEN <<JoinTokens(StripTokens(acc))>> \o SplitOn(Tail(ts), sep, <<>>)
  ELSE SplitOn(Tail(ts), sep, Append(acc, Head(ts)))

\* re.search over the text: the first token of the given class, if any.
FirstMatch(ts, class) ==
  LET hits == {i \in 1..Len(ts) : ts[i] \in class}
  IN IF hits = {} THEN <<>>
     ELSE <<ts[CHOOSE i \in hits : \A j \in hits : i <= j]>>

\* 476-492 without the pattern search: the split on " - " as it is.
DashOnly(ts, parts) == parts

\* 476-492: the parts when there is no bullet; parts is the split on " - ".
DashOrSearch(ts, parts) ==
  IF Len(parts) = 1
    THEN FirstMatch(ts, StageTokens) \o FirstMatch(ts, DateTokens)
           \o FirstMatch(ts, AmountTokens)
    ELSE parts

\* 472-492: the parts of a round text.
RoundParts(ts) ==
  IF \E i \in 1..Len(ts) : ts[i] = Bullet THEN SplitOn(ts, Bullet, <<>>)
  ELSE DashOrSearch(ts, SplitOn(ts, Dash, <<>>))

\* 494-523: the round entry made of the parts.
RoundOfParts(parts, round_text, img) ==
  CASE Len(parts) >= 3 ->
         [stage |-> Some(parts[1]), date |-> Some(parts[2]),
          amount |-> Some(parts[3]), is_lead |-> img]
    [] Len(parts) = 2 ->
         [stage |-> Some(parts[1]), date |-> Some(parts[2]),
          amount |-> None, is_lead |-> img]
    [] Len(parts) = 1 /\ parts[1] # "" ->
         [stage |-> Some(parts[1]), date |-> None, amount |-> None,
          is_lead |-> img]
    [] OTHER ->
         [stage |-> Some(round_text), date |-> None, amount |-> None,
          is_lead |-> img]

\* 471: round_text = round_div.text.strip().
RoundText(div) == StripTokens(div.text)

\* 470-523: the round entry of one div; img says whether the div holds an image.
ParseRound(div) ==
  RoundOfParts(RoundParts(RoundText(div)), JoinTokens(RoundText(div)), div.img)

(***************************************************************************)
(* The walk over the rows of the investments table (423-558).  A row is    *)
(*   [cls, kind, name, total, rounds, names]                               *)
(* cls:  one of the row's classes contains "coinvestor"                    *)
(* kind: "company"  at least three cells, the first one holding a div      *)
(*                  (name: its text, total: the third cell's div text,     *)
(*                  rounds: the divs of the second cell)                   *)
(*       "summary"  a td with colspan 3 holding a span with                *)
(*                  "Co-investors:" (names: the comma-separated items      *)
(*                  after the marker, each [name, affil])                  *)
(*       "other"    anything else                                          *)
(* The walk's state is [i, current_company, dict]; dict is the insertion-  *)
(* ordered investments_dict, a sequence of entries.                        *)
(***************************************************************************)
WalkInit == [i |-> 1, current_company |-> None, dict |-> <<>>]

HasCompany(dict, name) == \E k \in 1..Len(dict) : dict[k].company = name

IndexOfCompany(dict, name) == CHOOSE k \in 1..Len(dict) : dict[k].company = name

\* 538-551: the names of a summary row; an item with a parenthesis keeps the
\* text before it.
CoinvestorNames(names) == [k \in 1..Len(names) |-> names[k].name]

\* A variant of WithEntry: a new entry starts with the co-investors of the
\* entry before it.
WithEntryInheriting(dict, name) ==
  IF HasCompany(dict, name) THEN dict
  ELSE Append(dict, [company |-> name, rounds |-> <<>>, total_raised |-> None,
                     coinvestors |-> IF dict = <<>> THEN <<>>
                                     ELSE dict[Len(dict)].coinvestors])

\* 454-460: the entry of the company is created when it is missing.
WithEntry(dict, name) ==
  IF HasCompany(dict, name) THEN dict
  ELSE Append(dict, [company |-> name, rounds |-> <<>>, total_raised |-> None,
                     coinvestors |-> <<>>])

\* A variant of FillEntry: the rounds of the row replace those of the entry.
FillEntryReplacing(dict, k, row) ==
  [dict EXCEPT
     ![k].total_raised = IF row.total # None THEN row.total ELSE @,
     ![k].rounds = [r \in 1..Len(row.rounds) |-> ParseRound(row.rounds[r])]]

\* 462-523: the total raised and the rounds of the row go to entry k.
FillEntry(dict, k, row) ==
  [dict EXCEPT
     ![k].total_raised = IF row.total # None THEN row.total ELSE @,
     ![k].rounds = @ \o [r \in 1..Len(row.rounds) |-> ParseRound(row.rounds[r])]]

\* 444-523: a company row.
CompanyRow(w, row) ==
  [w EXCEPT !.current_company = Some(row.name),
            !.dict = FillEntry(WithEntry(@, row.name),
                               IndexOfCompany(WithEntry(@, row.name), row.name),
                               row)]

\* 525-554: the look-ahead for a co-investors row, made after every row that
\* is not flagged as a co-investor row.
LookAhead(w, rows) ==
  IF TruthyStr(w.current_company) /\ w.i + 1 <= Len(rows)
       /\ rows[w.i + 1].kind = "summary"
    THEN [w EXCEPT !.dict[IndexOfCompany(w.dict, w.current_company[1])].coinvestors =
                      CoinvestorNames(rows[w.i + 1].names),
                   !.i = @ + 1]
    ELSE w

\* 439-523: the row at i, unless it is flagged as a co-investor row.
RowAt(w, row) == IF row.kind = "company" THEN CompanyRow(w, row) ELSE w

\* 555: i += 1
Advance(w) == [w EXCEPT !.i = @ + 1]

\* 436-555: one iteration of the while loop.
WalkStep(w, rows) ==
  IF rows[w.i].cls THEN Advance(w)
  ELSE Advance(LookAhead(RowAt(w, rows[w.i]), rows))

RECURSIVE WalkFrom(_, _)
WalkFrom(w, rows) == IF w.i > Len(rows) THEN w ELSE WalkFrom(WalkStep(w, rows), rows)

\* 424-558: the investments list read from the table.
WalkTable(rows) == WalkFrom(WalkInit, rows).dict

(***************************************************************************)
(* The heuristic pass: _parse_from_html (custom_parser.py 268-563).  The   *)
(* rendered document h is a record of what each lookup finds.              *)
(***************************************************************************)
CoInvestorLimit == 5

\* The dict the heuristic pass starts from (275-293).
HtmlBaseData ==
  [name |-> None, position |-> None, firm |-> None, location |-> None,
   investment_range |-> EmptyRange,
   areas_of_interest |-> <<>>, investments |-> <<>>,
   investment_count |-> Some(0), current_fund_size |-> None, links |-> <<>>,
   roles |-> <<>>, co_investors |-> <<>>, scouts_angels |-> <<>>]

\* 296-299: the heading element, when there is one.
HtmlName(d, h) == Ok([d EXCEPT !.name = h.name])

\* 301-309: the non-empty role spans.
HtmlRoles(d, h) == Ok([d EXCEPT !.roles = SelectSeq(h.roles, LAMBDA r : r # "")])

\* 311-335: the "Current Investing Position" row.  posrow is
\* [st, firm, position, link]: st "absent", "dot" (the value text holds a
\* middle dot; firm and position are the stripped texts around the first one) or
\* "nodot" (link: the value cell holds a hyperlink, firm: its text, position:
\* the rest of the value text, separators stripped).
HtmlPositionRow(d, h) ==
  CASE h.posrow.st = "dot" ->
         Ok([d EXCEPT !.firm = Some(h.posrow.firm),
                      !.position = Some(h.posrow.position)])
    [] h.posrow.st = "nodot" /\ h.posrow.link ->
         Ok([d EXCEPT !.firm = Some(h.posrow.firm),
                      !.position = IF h.posrow.position # ""
                                     THEN Some(h.posrow.position) ELSE @])
    [] OTHER -> Ok(d)

\* 337-345: the subheader, split around the first "at".
HtmlSubheader(d, h) ==
  IF (~TruthyStr(d.position) \/ ~TruthyStr(d.firm)) /\ h.subheader.st = "at"
    THEN Ok([d EXCEPT !.position = Some(h.subheader.position),
                      !.firm = Some(h.subheader.firm)])
    ELSE Ok(d)

\* 347-350
HtmlLocation(d, h) == Ok([d EXCEPT !.location = h.location])

\* 366-367: the two assignments, each made unless its amount raised.
HtmlRangeAssign(d, mn, mx) ==
  IF mn.raised THEN Raise(d)
  ELSE IF mx.raised THEN Raise([d EXCEPT !.investment_range.min = mn.val])
  ELSE Ok([d EXCEPT !.investment_range.min = mn.val,
                    !.investment_range.max = mx.val])

\* 361-367: the range value split on '-'; only two parts are used.
HtmlRangeRow(d, h) ==
  IF h.range.st = "row" /\ Len(h.range.parts) = 2
    THEN HtmlRangeAssign(d, ParseAmount(StripChars(h.range.parts[1])),
                         ParseAmount(StripChars(h.range.parts[2])))
    ELSE Ok(d)

\* 370: data["investment_range"]["target"] = r, unless the amount raised.
TargetAssign(d, r) ==
  IF r.raised THEN Raise(d) ELSE Ok([d EXCEPT !.investment_range.target = r.val])

\* 369-370
HtmlSweetSpot(d, h) == IF h.sweet.has THEN TargetAssign(d, ParseAmount(h.sweet.s)) ELSE Ok(d)

\* 373: data["current_fund_size"] = r, unless the amount raised.
FundAssign(d, r) ==
  IF r.raised THEN Raise(d) ELSE Ok([d EXCEPT !.current_fund_size = r.val])

\* 372-373
HtmlFundSize(d, h) == IF h.fund.has THEN FundAssign(d, ParseAmount(h.fund.s)) ELSE Ok(d)

\* A variant of HtmlCount: the count is the number of investments found so far.
HtmlCountOfList(d, h) == Ok([d EXCEPT !.investment_count = Some(Len(d.investments))])

\* 375-379: int(value_text), left alone when it is not a number.
HtmlCount(d, h) ==
  IF h.count.has /\ h.count.numeric
    THEN Ok([d EXCEPT !.investment_count = Some(h.count.n)])
    ELSE Ok(d)

\* 387-395: the chips, each cut before its parenthesis, without duplicates.
AddChip(acc, c) ==
  IF c # <<>> /\ ~(\E k \in 1..Len(acc) : acc[k] = c) THEN Append(acc, c) ELSE acc

RECURSIVE Chips(_, _)
Chips(acc, chips) ==
  IF chips = <<>> THEN acc ELSE Chips(AddChip(acc, Head(chips)), Tail(chips))

\* 381-395.  sector is [st, chips]: st "absent" (no heading), "noparent" (the
\* heading has no enclosing div), "nonext" (no div follows the container:
\* find_next returns None and .find_all raises) or "chips".
HtmlSector(d, h) ==
  CASE h.sector.st = "nonext" -> Raise(d)
    [] h.sector.st = "chips" ->
         Ok([d EXCEPT !.areas_of_interest = Chips(@, h.sector.chips)])
    [] OTHER -> Ok(d)

\* rows[:5]
FirstRows(rows) ==
  SubSeq(rows, 1, IF Len(rows) < CoInvestorLimit THEN Len(rows) ELSE CoInvestorLimit)

NamesOf(named) == [k \in 1..Len(named) |-> named[k][1]]

\* 403-408 and 416-421: the name links of the first five network rows; a row
\* without a name link (None) gives nothing.
NetworkRows(rows) == NamesOf(SelectSeq(FirstRows(rows), LAMBDA r : r # None))

\* 397-408
HtmlCoInvestors(d, h) == Ok([d EXCEPT !.co_investors = NetworkRows(h.co_investors)])

\* 410-421
HtmlScouts(d, h) == Ok([d EXCEPT !.scouts_angels = NetworkRows(h.scouts_angels)])

\* 423-558.  table is [st, rows]: st "absent", "notbody" or "rows".
HtmlInvestments(d, h) ==
  IF h.table.st = "rows"
    THEN Ok([d EXCEPT !.investments = WalkTable(h.table.rows)])
    ELSE Ok(d)

\* 295-558: the body of the try block.
HtmlTry(h) ==
  LET s1 == HtmlName(HtmlBaseData, h)
      s2 == Then(s1, HtmlRoles, h)
      s3 == Then(s2, HtmlPositionRow, h)
      s4 == Then(s3, HtmlSubheader, h)
      s5 == Then(s4, HtmlLocation, h)
      s6 == Then(s5, HtmlRangeRow, h)
      s7 == Then(s6, HtmlSweetSpot, h)
      s8 == Then(s7, HtmlFundSize, h)
      s9 == Then(s8, HtmlCount, h)
      s10 == Then(s9, HtmlSector, h)
      s11 == Then(s10, HtmlCoInvestors, h)
      s12 == Then(s11, HtmlScouts, h)
  IN Then(s12, HtmlInvestments, h)

\* 560-563: except Exception: log, and return the data filled so far.
HtmlExcept(s) == [data |-> s.data, escaped |-> FALSE]

\* 268-563
ParseFromHtml(h) == HtmlExcept(HtmlTry(h))

(***************************************************************************)
(* parse (58-110): the base record, the structured pass, the fallback to   *)
(* the heuristic pass and the merge.                                       *)
(***************************************************************************)
\* A variant of BaseData: the record starts without its source label.
BaseDataUnlabelled(source_file) ==
  [name |-> None, position |-> None, firm |-> None, location |-> None,
   investment_range |-> EmptyRange,
   areas_of_interest |-> <<>>, not_interested_in |-> <<>>,
   investments |-> <<>>, investment_count |-> Some(0), links |-> <<>>,
   extraction_method |-> None, source_file |-> None]

\* 66-83
BaseData(source_file) ==
  [name |-> None, position |-> None, firm |-> None, location |-> None,
   investment_range |-> EmptyRange,
   areas_of_interest |-> <<>>, not_interested_in |-> <<>>,
   investments |-> <<>>, investment_count |-> Some(0), links |-> <<>>,
   extraction_method |-> None, source_file |-> source_file]

StrFields == {"name", "position", "firm", "location"}
IntFields == {"investment_count", "current_fund_size"}

\* bool(value) for the value of a field of the record.
Truthy(field, v) ==
  CASE field \in StrFields -> TruthyStr(v)
    [] field \in IntFields -> TruthyInt(v)
    [] OTHER -> TruthySeq(v)

\* A variant of MergeRange: the range is taken from one source as a whole.
MergeRangeWhole(dr, hr) ==
  IF \E t \in DOMAIN dr : TruthyInt(dr[t]) THEN dr ELSE hr

\* 98-100: the range is merged value by value.
MergeRange(dr, hr) ==
  [t \in DOMAIN dr \cup {x \in DOMAIN hr : ~TruthyInt(Get(dr, x)) /\ TruthyInt(hr[x])}
     |-> IF ~TruthyInt(Get(dr, t)) /\ t \in DOMAIN hr /\ TruthyInt(hr[t])
           THEN hr[t] ELSE dr[t]]

\* A variant of MergeField: a non-empty heuristic value always wins.
MergeFieldHtmlWins(d, field, value) ==
  IF Truthy(field, value) THEN DictSet(d, field, value) ELSE d

\* 96-102: one field of html_data.
MergeField(d, field, value) ==
  IF field = "investment_range"
    THEN [d EXCEPT !.investment_range = MergeRange(@, value)]
  ELSE IF ~Truthy(field, Get(d, field)) /\ Truthy(field, value)
    THEN DictSet(d, field, value)
  ELSE d

\* The keys of html_data, in the order of the dict (275-293).
HtmlFields ==
  <<"name", "position", "firm", "location", "investment_range",
    "areas_of_interest", "investments", "investment_count", "current_fund_size",
    "links", "roles", "co_investors", "scouts_angels">>

\* 95-102: for field, value in html_data.items()
RECURSIVE MergeFrom(_, _, _)
MergeFrom(d, html, k) ==
  IF k > Len(HtmlFields) THEN d
  ELSE MergeFrom(MergeField(d, HtmlFields[k], html[HtmlFields[k]]), html, k + 1)

\* A variant of MethodAfterHtml: the fallback always says "mixed".
MethodMixed(method) == Some("mixed")

\* A variant of MethodAfterHtml: the label is left as it was.
MethodKept(method) == method

\* 104-108
MethodAfterHtml(method) == IF method = None THEN Some("html") ELSE Some("mixed")

\* A variant of NeedsHtml: only the name is looked at.
NeedsHtmlNameOnly(d) == ~TruthyStr(d.name)

\* 91: the heuristic pass is needed.
NeedsHtml(d) == ~TruthyStr(d.name) \/ ~TruthySeq(d.investments)

\* 86: the structured pass is tried.
UsesApollo(state, id) == state # None /\ TruthyStr(id)

(***************************************************************************)
(* Input documents.  A document is the base document with at most          *)
(* MaxFilled of its attributes changed; the base document has a decodable  *)
(* cache holding an empty profile entity, and an empty page.               *)
(***************************************************************************)
MaxFilled == 3

AbsentRef == [st |-> "absent", name |-> None]
AbsentAmount == [kind |-> "absent", s |-> <<>>, n |-> 0]
AbsentPerson == [st |-> "absent", name |-> None, links |-> <<>>]
NoFundingRound == [st |-> "absent", round_name |-> None, amount |-> None]
NoInvestments ==
  [st |-> "absent", record_count |-> [has |-> FALSE, v |-> None],
   edges |-> [st |-> "absent", list |-> <<>>]]

\* An edge whose company reference resolves to a company called name.
EdgeTo(name) ==
  [node |-> "dict", company |-> [st |-> "ok", name |-> Some(name)],
   funding_round |-> NoFundingRound, date |-> None, is_lead |-> FALSE]

\* An edge like e with the company reference in state st.
EdgeWithCompany(e, st) == [e EXCEPT !.company = [st |-> st, name |-> None]]

Investments(has, count, list) ==
  [st |-> "dict", record_count |-> [has |-> has, v |-> count],
   edges |-> [st |-> "list", list |-> list]]

BaseProfile ==
  [person |-> AbsentPerson, position |-> None, firm |-> AbsentRef,
   location |-> AbsentRef, min_investment |-> AbsentAmount,
   max_investment |-> AbsentAmount, target_investment |-> AbsentAmount,
   areas_of_interest_freeform |-> <<>>, no_current_interest_freeform |-> <<>>,
   investments_on_record |-> NoInvestments]

BaseHtml ==
  [name |-> None, roles |-> <<>>,
   posrow |-> [st |-> "absent", firm |-> "", position |-> "", link |-> FALSE],
   subheader |-> [st |-> "absent", position |-> "", firm |-> ""],
   location |-> None,
   range |-> [st |-> "absent", parts |-> <<>>],
   sweet |-> [has |-> FALSE, s |-> <<>>],
   fund |-> [has |-> FALSE, s |-> <<>>],
   count |-> [has |-> FALSE, numeric |-> FALSE, n |-> 0],
   sector |-> [st |-> "absent", chips |-> <<>>],
   co_investors |-> <<>>, scouts_angels |-> <<>>,
   table |-> [st |-> "absent", rows |-> <<>>]]

BaseDoc ==
  [source_file |-> "a.html", blob |-> "dict",
   graph |-> [key |-> <<"PublicInvestorProfile", "1">>, entity |-> "dict",
              profile |-> BaseProfile],
   html |-> BaseHtml]

CompanyRowOf(name, rounds) ==
  [cls |-> FALSE, kind |-> "company", name |-> name, total |-> Some("$9M"),
   rounds |-> rounds, names |-> <<>>]

SummaryRowOf(cls, names) ==
  [cls |-> cls, kind |-> "summary", name |-> "", total |-> None,
   rounds |-> <<>>, names |-> names]

OtherRow ==
  [cls |-> FALSE, kind |-> "other", name |-> "", total |-> None,
   rounds |-> <<>>, names |-> <<>>]

SeedRound == [text |-> <<"Seed">>, img |-> FALSE]

LeadRound == [text |-> <<"Series A", Bullet, "Jan 2020">>, img |-> TRUE]

\* The changes of one attribute: <<part of the document, attribute, value>>.
Fills ==
  << <<"doc", "blob", "absent">>,
     <<"doc", "blob", "undecodable">>,
     <<"doc", "source_file", "b.html">>,
     <<"graph", "key", <<>> >>,
     <<"graph", "key", <<"PublicInvestorProfile", "">> >>,
     <<"graph", "key", <<"PublicInvestorProfile", "1", "x">> >>,
     <<"graph", "entity", "empty">>,
     <<"graph", "entity", "nondict">>,
     <<"profile", "person", [st |-> "ok", name |-> Some("Ann"), links |-> <<>>]>>,
     <<"profile", "person",
       [st |-> "ok", name |-> None,
        links |-> [t \in {"linkedin_url", "blog_url"} |-> Some("u")]]>>,
     <<"profile", "person", [st |-> "dangling", name |-> None, links |-> <<>>]>>,
     <<"profile", "person", [st |-> "noid", name |-> None, links |-> <<>>]>>,
     <<"profile", "position", Some("Partner")>>,
     <<"profile", "firm", [st |-> "ok", name |-> Some("Acme")]>>,
     <<"profile", "firm", [st |-> "dangling", name |-> None]>>,
     <<"profile", "firm", [st |-> "noid", name |-> None]>>,
     <<"profile", "location", [st |-> "ok", name |-> Some("NYC")]>>,
     <<"profile", "min_investment",
       [kind |-> "str", s |-> <<"$", "5", "K">>, n |-> 0]>>,
     <<"profile", "min_investment", [kind |-> "str", s |-> <<"x">>, n |-> 0]>>,
     <<"profile", "max_investment", [kind |-> "num", s |-> <<>>, n |-> 9000]>>,
     <<"profile", "target_investment",
       [kind |-> "str", s |-> <<"i", "n", "f">>, n |-> 0]>>,
     <<"profile", "target_investment", [kind |-> "num", s |-> <<>>, n |-> 0]>>,
     <<"profile", "areas_of_interest_freeform", << <<"A", "I">>, <<" ", "B">> >> >>,
     <<"profile", "no_current_interest_freeform", << <<"X">> >> >>,
     <<"profile", "investments_on_record",
       Investments(TRUE, Some(7), <<EdgeTo("Co1")>>)>>,
     <<"profile", "investments_on_record",
       Investments(FALSE, None, <<EdgeTo("Co1"), EdgeTo("Co2")>>)>>,
     <<"profile", "investments_on_record", Investments(TRUE, Some(2), <<>>)>>,
     <<"profile", "investments_on_record",
       Investments(TRUE, None, <<EdgeWithCompany(EdgeTo(""), "dangling")>>)>>,
     <<"html", "name", Some("Bob")>>,
     <<"html", "name", Some("")>>,
     <<"html", "roles", <<"Investor", "">> >>,
     <<"html", "posrow",
       [st |-> "dot", firm |-> "Other", position |-> "GP", link |-> FALSE]>>,
     <<"html", "posrow",
       [st |-> "nodot", firm |-> "LinkCo", position |-> "", link |-> TRUE]>>,
     <<"html", "subheader", [st |-> "at", position |-> "Investor", firm |-> "SubCo"]>>,
     <<"html", "location", Some("SF")>>,
     <<"html", "range", [st |-> "row", parts |-> << <<"$", "1", "K", " ">>, <<" ", "$", "2", "K">> >>]>>,
     <<"html", "range", [st |-> "row", parts |-> << <<"x">>, <<"$", "2", "K">> >>]>>,
     <<"html", "sweet", [has |-> TRUE, s |-> <<"$", "3", "K">>]>>,
     <<"html", "fund", [has |-> TRUE, s |-> <<"$", "1", "M">>]>>,
     <<"html", "count", [has |-> TRUE, numeric |-> TRUE, n |-> 12]>>,
     <<"html", "count", [has |-> TRUE, numeric |-> FALSE, n |-> 0]>>,
     <<"html", "sector", [st |-> "chips", chips |-> << <<"F">>, <<"F">>, <<"G">> >>]>>,
     <<"html", "sector", [st |-> "nonext", chips |-> <<>>]>>,
     <<"html", "co_investors", <<Some("Zed"), None>> >>,
     <<"html", "scouts_angels", <<Some("Sam")>> >>,
     <<"html", "table", [st |-> "rows", rows |-> <<CompanyRowOf("A", <<SeedRound>>)>>]>>,
     <<"html", "table",
       [st |-> "rows",
        rows |-> <<CompanyRowOf("A", <<>>),
                   SummaryRowOf(TRUE, <<[name |-> "Kim", affil |-> TRUE]>>)>>]>>,
     <<"html", "table", [st |-> "notbody", rows |-> <<>>]>> >>

ApplyFill(d, f) ==
  CASE f[1] = "doc" -> [d EXCEPT ![f[2]] = f[3]]
    [] f[1] = "graph" -> [d EXCEPT !.graph[f[2]] = f[3]]
    [] f[1] = "profile" -> [d EXCEPT !.graph.profile[f[2]] = f[3]]
    [] f[1] = "html" -> [d EXCEPT !.html[f[2]] = f[3]]

\* The sets of at most k fills, no two of them of the same attribute.
RECURSIVE FillSets(_)
FillSets(k) ==
  IF k = 0 THEN {{}}
  ELSE LET prev == FillSets(k - 1)
       IN prev \cup
          {s \cup {i} : <<s, i>> \in
             {x \in prev \X (1..Len(Fills)) :
                \A j \in x[1] : Fills[j][1] # Fills[x[2]][1]
                                  \/ Fills[j][2] # Fills[x[2]][2]}}

RECURSIVE ApplyFills(_, _)
ApplyFills(d, s) ==
  IF s = {} THEN d
  ELSE LET i == CHOOSE x \in s : TRUE
       IN ApplyFills(ApplyFill(d, Fills[i]), s \ {i})

(***************************************************************************)
(* The parser: __init__ (23-37), _extract_apollo_state (39-56) and the     *)
(* steps of parse (58-110).                                                *)
(***************************************************************************)
VARIABLES
  doc,           \* the document and its source label
  pc,            \* where the call is
  apollo_state,  \* self.apollo_state: None or the decoded cache
  investor_id,   \* self.investor_id
  person_id,     \* self.person_id
  apollo_ran,    \* _parse_from_apollo_state was called
  apollo_data,   \* what it returned
  html_ran,      \* _parse_from_html was called
  html_data,     \* what it returned
  data,          \* the record parse builds and returns
  escaped,       \* an exception left parse
  edges,         \* the edge loop: the edges of investments_on_record
  edge_i,        \* the edge loop: the next edge
  edge_s,        \* the edge loop: [data, raised]
  rows,          \* the table walk: the rows of the table body
  walk,          \* the table walk: [i, current_company, dict]
  amount_in,     \* _parse_amount: the argument
  amount_out,    \* _parse_amount: None before the call, then <<[raised, val]>>
  round_in,      \* the round parsing: the div [text, img]
  round_out,     \* the round parsing: None before it, then <<the round>>
  inst,          \* two parsers: the attributes of each instance
  call,          \* two parse calls: [self, pc, data] of each
  files,         \* the batch runner: the files found
  file_i,        \* the batch runner: the next file
  results,       \* the batch runner: the records collected
  failed,        \* the batch runner: the files logged as failed
  items,         \* URLQueue.items: [status, retry_count] of each URL
  current_index, \* URLQueue.current_index (counted from 0)
  state_file,    \* the saved queue state: None, or <<[items, current_index]>>
  start_index,   \* get_next_url: where the scan began
  next_url,      \* what get_next_url returned: None or <<[item, index]>>
  handed,        \* for each URL, how many times it was handed out
  runs           \* how many times the scrape process was started

vars ==
  <<doc, pc, apollo_state, investor_id, person_id, apollo_ran, apollo_data,
    html_ran, html_data, data, escaped, edges, edge_i, edge_s, rows, walk,
    amount_in, amount_out, round_in, round_out, inst, call, files, file_i,
    results, failed, items, current_index, state_file, start_index, next_url,
    handed, runs>>

parseVars ==
  <<doc, pc, apollo_state, investor_id, person_id, apollo_ran, apollo_data,
    html_ran, html_data, data, escaped>>

loopVars == <<edges, edge_i, edge_s, rows, walk>>

amountVars == <<amount_in, amount_out>>

roundVars == <<round_in, round_out>>

pairVars == <<inst, call>>

batchVars == <<files, file_i, results, failed>>

queueVars ==
  <<items, current_index, state_file, start_index, next_url, handed, runs>>

\* The variables of the other operations, which parse does not touch.
otherVars == <<amountVars, roundVars, pairVars, batchVars, queueVars>>

QueueIdle ==
  /\ items = <<>>
  /\ current_index = 0
  /\ state_file = None
  /\ start_index = 0
  /\ next_url = None
  /\ handed = <<>>
  /\ runs = 0

OtherIdle ==
  /\ QueueIdle
  /\ amount_in = <<>>
  /\ amount_out = None
  /\ round_in = [text |-> <<>>, img |-> FALSE]
  /\ round_out = None
  /\ inst = <<>>
  /\ call = <<>>
  /\ files = <<>>
  /\ file_i = 0
  /\ results = <<>>
  /\ failed = <<>>

LoopIdle ==
  /\ edges = <<>>
  /\ edge_i = 0
  /\ edge_s = Ok(ApolloBaseData)
  /\ rows = <<>>
  /\ walk = WalkInit

ParseIdle ==
  /\ doc = BaseDoc
  /\ apollo_state = None
  /\ investor_id = None
  /\ person_id = None
  /\ apollo_ran = FALSE
  /\ apollo_data = ApolloBaseData
  /\ html_ran = FALSE
  /\ html_data = HtmlBaseData
  /\ data = BaseData("")
  /\ escaped = FALSE

Init ==
  /\ OtherIdle
  /\ \E s \in FillSets(MaxFilled) : doc = ApplyFills(BaseDoc, s)
  /\ pc = "new"
  /\ apollo_state = None
  /\ investor_id = None
  /\ person_id = None
  /\ apollo_ran = FALSE
  /\ apollo_data = ApolloBaseData
  /\ html_ran = FALSE
  /\ html_data = HtmlBaseData
  /\ data = BaseData("")
  /\ escaped = FALSE
  /\ LoopIdle

\* 47: json.loads of the matched blob.
DecodedState(d) == IF d.blob = "dict" THEN Some(d.graph) ELSE None

\* 49-51: the id of the profile key, key.split(':')[1].
ProfileIdOf(d) ==
  IF d.blob = "dict" /\ Len(d.graph.key) >= 2
       /\ d.graph.key[1] = "PublicInvestorProfile"
    THEN Some(d.graph.key[2]) ELSE None

\* 52-53: the person id of the profile entity; reading it from a value that is
\* no object raises, which 55 catches.
PersonIdOf(d) ==
  IF ProfileIdOf(d) # None /\ d.graph.entity = "dict"
       /\ d.graph.profile.person.st \in {"notypename", "dangling", "ok"}
    THEN Some("p1") ELSE None

\* __init__ and _extract_apollo_state (23-56)
Construct ==
  /\ pc = "new"
  /\ apollo_state' = DecodedState(doc)
  /\ investor_id' = ProfileIdOf(doc)
  /\ person_id' = PersonIdOf(doc)
  /\ pc' = "constructed"
  /\ UNCHANGED <<doc, apollo_ran, apollo_data, html_ran, html_data, data, escaped>>
  /\ UNCHANGED loopVars
  /\ UNCHANGED otherVars

\* parse, 66-88, when the structured pass is tried.
ApolloPass ==
  /\ pc = "constructed"
  /\ UsesApollo(apollo_state, investor_id)
  /\ apollo_data' = ParseFromApolloState(apollo_state[1], investor_id[1]).data
  /\ escaped' = ParseFromApolloState(apollo_state[1], investor_id[1]).escaped
  /\ data' = [DictUpdate(BaseData(doc.source_file), apollo_data')
                EXCEPT !.extraction_method = Some("apollo_state")]
  /\ apollo_ran' = TRUE
  /\ pc' = "structured"
  /\ UNCHANGED <<doc, apollo_state, investor_id, person_id, html_ran, html_data>>
  /\ UNCHANGED loopVars
  /\ UNCHANGED otherVars

\* parse, 66-88, when it is not.
ApolloSkip ==
  /\ pc = "constructed"
  /\ ~UsesApollo(apollo_state, investor_id)
  /\ data' = BaseData(doc.source_file)
  /\ pc' = "structured"
  /\ UNCHANGED <<doc, apollo_state, investor_id, person_id, apollo_ran,
                 apollo_data, html_ran, html_data, escaped>>
  /\ UNCHANGED loopVars
  /\ UNCHANGED otherVars

\* parse, 90-110, when the heuristic pass is needed.
HtmlFallback ==
  /\ pc = "structured"
  /\ ~escaped
  /\ NeedsHtml(data)
  /\ html_data' = ParseFromHtml(doc.html).data
  /\ escaped' = ParseFromHtml(doc.html).escaped
  /\ data' = [MergeFrom(data, html_data', 1)
                EXCEPT !.extraction_method = MethodAfterHtml(@)]
  /\ html_ran' = TRUE
  /\ pc' = "done"
  /\ UNCHANGED <<doc, apollo_state, investor_id, person_id, apollo_ran, apollo_data>>
  /\ UNCHANGED loopVars
  /\ UNCHANGED otherVars

\* parse, 90-110, when it is not.
Return ==
  /\ pc = "structured"
  /\ ~escaped
  /\ ~NeedsHtml(data)
  /\ pc' = "done"
  /\ UNCHANGED <<doc, apollo_state, investor_id, person_id, apollo_ran,
                 apollo_data, html_ran, html_data, data, escaped>>
  /\ UNCHANGED loopVars
  /\ UNCHANGED otherVars

Next == Construct \/ ApolloPass \/ ApolloSkip \/ HtmlFallback \/ Return

Spec == Init /\ [][Next]_vars

(***************************************************************************)
(* The loop over the edges of investments_on_record (224-261), one          *)
(* iteration at a time, on lists of at most MaxEdges edges.                 *)
(***************************************************************************)
MaxEdges == 3

SeedFunding == [st |-> "ok", round_name |-> Some("Seed"), amount |-> Some(5)]

EdgeKinds ==
  { EdgeTo("Co1"),
    [EdgeTo("Co2") EXCEPT !.funding_round = SeedFunding, !.date = Some("2020"),
                          !.is_lead = TRUE],
    [EdgeTo("Co3") EXCEPT !.funding_round = [NoFundingRound EXCEPT !.st = "dangling"]],
    [EdgeTo("Co4") EXCEPT !.funding_round = [NoFundingRound EXCEPT !.st = "noid"]],
    [EdgeTo("") EXCEPT !.company.name = None],
    EdgeWithCompany(EdgeTo(""), "absent"),
    EdgeWithCompany(EdgeTo(""), "dangling"),
    EdgeWithCompany(EdgeTo(""), "noid"),
    [EdgeTo("") EXCEPT !.node = "missing"] }

RECURSIVE SeqsUpTo(_, _)
SeqsUpTo(S, n) ==
  IF n = 0 THEN {<<>>}
  ELSE SeqsUpTo(S, n - 1) \cup
       {Append(q, x) : <<q, x>> \in {y \in SeqsUpTo(S, n - 1) \X S : Len(y[1]) = n - 1}}

InitEdges ==
  /\ OtherIdle
  /\ ParseIdle
  /\ pc = "edges"
  /\ edges \in SeqsUpTo(EdgeKinds, MaxEdges)
  /\ edge_i = 1
  /\ edge_s = Ok(ApolloBaseData)
  /\ rows = <<>>
  /\ walk = WalkInit

\* 224-261: the body of the loop, for the next edge.
EdgeIter ==
  /\ pc = "edges"
  /\ ~edge_s.raised
  /\ edge_i <= Len(edges)
  /\ edge_s' = EdgeStep(edge_s, edges[edge_i])
  /\ edge_i' = edge_i + 1
  /\ UNCHANGED <<parseVars, edges, rows, walk>>
  /\ UNCHANGED otherVars

\* 263-266: an exception of the body ends the loop and the extraction.
EdgesExcept ==
  /\ pc = "edges"
  /\ edge_s.raised
  /\ pc' = "edges_done"
  /\ UNCHANGED <<doc, apollo_state, investor_id, person_id, apollo_ran,
                 apollo_data, html_ran, html_data, data, escaped>>
  /\ UNCHANGED loopVars
  /\ UNCHANGED otherVars

\* 224, 266: the edges are exhausted.
EdgesEnd ==
  /\ pc = "edges"
  /\ ~edge_s.raised
  /\ edge_i > Len(edges)
  /\ pc' = "edges_done"
  /\ UNCHANGED <<doc, apollo_state, investor_id, person_id, apollo_ran,
                 apollo_data, html_ran, html_data, data, escaped>>
  /\ UNCHANGED loopVars
  /\ UNCHANGED otherVars

NextEdges == EdgeIter \/ EdgesExcept \/ EdgesEnd

SpecEdges == InitEdges /\ [][NextEdges]_vars

(***************************************************************************)
(* The walk of the investments table (431-558), one iteration of the while *)
(* loop at a time, on tables of at most MaxRows rows.                      *)
(***************************************************************************)
MaxRows == 4

Kim == [name |-> "Kim", affil |-> TRUE]
Lee == [name |-> "Lee", affil |-> FALSE]

RowKinds ==
  { CompanyRowOf("A", <<SeedRound>>),
    CompanyRowOf("A", <<LeadRound>>),
    CompanyRowOf("B", <<>>),
    CompanyRowOf("", <<>>),
    [CompanyRowOf("B", <<>>) EXCEPT !.cls = TRUE],
    SummaryRowOf(TRUE, <<Kim, Lee>>),
    SummaryRowOf(FALSE, <<Lee>>),
    SummaryRowOf(TRUE, <<>>),
    OtherRow }

InitTable ==
  /\ OtherIdle
  /\ ParseIdle
  /\ pc = "walk"
  /\ rows \in SeqsUpTo(RowKinds, MaxRows)
  /\ walk = WalkInit
  /\ edges = <<>>
  /\ edge_i = 0
  /\ edge_s = Ok(ApolloBaseData)

\* 436-555: one iteration of the while loop.
WalkIter ==
  /\ pc = "walk"
  /\ walk.i <= Len(rows)
  /\ walk' = WalkStep(walk, rows)
  /\ UNCHANGED <<parseVars, edges, edge_i, edge_s, rows>>
  /\ UNCHANGED otherVars

\* 436, 558: the rows are exhausted.
WalkEnd ==
  /\ pc = "walk"
  /\ walk.i > Len(rows)
  /\ pc' = "walk_done"
  /\ UNCHANGED <<doc, apollo_state, investor_id, person_id, apollo_ran,
                 apollo_data, html_ran, html_data, data, escaped>>
  /\ UNCHANGED loopVars
  /\ UNCHANGED otherVars

NextTable == WalkIter \/ WalkEnd

SpecTable == InitTable /\ [][NextTable]_vars

(***************************************************************************)
(* _parse_amount (565-593) called on one string: every string of at most   *)
(* MaxAmountLen of the characters AmountChars, and the strings of          *)
(* AmountExamples.                                                         *)
(***************************************************************************)
MaxAmountLen == 3

AmountChars == {"$", ",", " ", "-", ".", "1", "4", "K", "M", "x"}

AmountExamples ==
  { <<"$", "1", ".", "5", "M">>,
    <<"$", "5", "0", "0", "K">>,
    <<"$", "2", "B">>,
    <<"1", ".", "5", "B">>,
    <<"$", "8", ".", "2", "M">>,
    <<"2", ".", "0", "1", "K">>,
    <<"$", "1", ",", "0", "0", "0">>,
    <<" ", "$", "2", "5", "0", "K", " ">>,
    <<"$", "1", "0", "0", "K", "+">>,
    <<"i", "n", "f">>,
    <<"$", "-", "i", "n", "f">>,
    <<"i", "n", "f", "K">>,
    <<"N", "/", "A">> }

InitAmount ==
  /\ ParseIdle
  /\ LoopIdle
  /\ pc = "amount"
  /\ amount_in \in SeqsUpTo(AmountChars, MaxAmountLen) \cup AmountExamples
  /\ amount_out = None
  /\ round_in = [text |-> <<>>, img |-> FALSE]
  /\ round_out = None
  /\ inst = <<>>
  /\ call = <<>>
  /\ files = <<>>
  /\ file_i = 0
  /\ results = <<>>
  /\ failed = <<>>
  /\ QueueIdle

\* 565-593: the call; amount_out holds what it returned and whether it raised.
AmountCall ==
  /\ pc = "amount"
  /\ amount_out' = Some(ParseAmount(amount_in))
  /\ pc' = "amount_done"
  /\ UNCHANGED <<doc, apollo_state, investor_id, person_id, apollo_ran,
                 apollo_data, html_ran, html_data, data, escaped>>
  /\ UNCHANGED loopVars
  /\ UNCHANGED <<amount_in, roundVars, pairVars, batchVars, queueVars>>

NextAmount == AmountCall

SpecAmount == InitAmount /\ [][NextAmount]_vars

(***************************************************************************)
(* The round-descriptor parsing on its own (470-523): one div of a rounds  *)
(* cell, its text drawn from the token sequences up to MaxRoundTokens and  *)
(* from the examples of the documentation.                                 *)
(***************************************************************************)
MaxRoundTokens == 4

RoundTokens == {"Series A", "Jan 2020", "$5M", "foo", Space, Bullet, Dash}

RoundExamples ==
  { <<"Series A", Space, Bullet, Space, "Jan 2020", Space, Bullet, Space, "$5M">>,
    <<"Seed">>,
    <<"Series A", Bullet, "Jan 2020", Bullet, "$5M", Bullet, "foo">>,
    <<"Series B", Dash, "Mar 2021", Dash, "$2K">>,
    <<"foo", Space, "$5M", Space, "Jan 2020", Space, "Pre-Seed">> }

InitRound ==
  /\ ParseIdle
  /\ LoopIdle
  /\ pc = "round"
  /\ amount_in = <<>>
  /\ amount_out = None
  /\ round_in \in [text : SeqsUpTo(RoundTokens, MaxRoundTokens) \cup RoundExamples,
                   img : BOOLEAN]
  /\ round_out = None
  /\ inst = <<>>
  /\ call = <<>>
  /\ files = <<>>
  /\ file_i = 0
  /\ results = <<>>
  /\ failed = <<>>
  /\ QueueIdle

\* 470-523: one iteration of the loop over the divs of the rounds cell;
\* round_out holds the entry appended at 518-523.
RoundCall ==
  /\ pc = "round"
  /\ round_out' = Some(ParseRound(round_in))
  /\ pc' = "round_done"
  /\ UNCHANGED <<doc, apollo_state, investor_id, person_id, apollo_ran,
                 apollo_data, html_ran, html_data, data, escaped>>
  /\ UNCHANGED loopVars
  /\ UNCHANGED <<round_in, amountVars, pairVars, batchVars, queueVars>>

NextRound == RoundCall

SpecRound == InitRound /\ [][NextRound]_vars

(***************************************************************************)
(* Two parsers and two parse calls (23-110).  inst holds what each         *)
(* instance was given and, once __init__ has run, its attributes; call     *)
(* holds, for each call of parse, the instance it runs on, where it is     *)
(* and its local record.  The steps of the two calls interleave freely.    *)
(***************************************************************************)
MaxPairFilled == 1

\* A second document: no cache, a page with a name, another label.
OtherDoc ==
  ApplyFill(ApplyFill(ApplyFill(BaseDoc, <<"doc", "blob", "absent">>),
                      <<"doc", "source_file", "b.html">>),
            <<"html", "name", Some("Bob")>>)

\* 31-37 and 39-56: the attributes __init__ leaves on the instance.
SelfOf(d) ==
  [source_file |-> d.source_file, soup |-> d.html,
   apollo_state |-> DecodedState(d), investor_id |-> ProfileIdOf(d),
   person_id |-> PersonIdOf(d)]

\* A variant of InstWith: the attributes live on the class, so every
\* instance sees those written last.
InstShared(is, i, self) == [j \in 1..Len(is) |-> [is[j] EXCEPT !.self = Some(self)]]

\* 31-36, 47-53: the attributes are written on the instance itself.
InstWith(is, i, self) == [is EXCEPT ![i].self = Some(self)]

\* A variant of SelfAfterParse: the structured pass uses the cache up.
SelfConsumed(self) == [self EXCEPT !.apollo_state = None]

\* 58-110: what parse leaves on the instance; it assigns no attribute and
\* changes no object an attribute holds.
SelfAfterParse(self) == self

\* 66-88: the local record after the structured pass, p being what
\* _parse_from_apollo_state returned.
StructuredOf(self, p) ==
  [data |-> [DictUpdate(BaseData(self.source_file), p.data)
               EXCEPT !.extraction_method = Some("apollo_state")],
   escaped |-> p.escaped]

StructuredStep(self) ==
  IF UsesApollo(self.apollo_state, self.investor_id)
    THEN StructuredOf(self, ParseFromApolloState(self.apollo_state[1],
                                                 self.investor_id[1]))
    ELSE [data |-> BaseData(self.source_file), escaped |-> FALSE]

\* 90-110: the record returned, h being what _parse_from_html returned.
FallbackOf(d, h) ==
  [data |-> [MergeFrom(d, h.data, 1)
               EXCEPT !.extraction_method = MethodAfterHtml(@)],
   escaped |-> h.escaped]

FallbackStep(self, d) ==
  IF NeedsHtml(d) THEN FallbackOf(d, ParseFromHtml(self.soup))
  ELSE [data |-> d, escaped |-> FALSE]

\* parser = InvestorProfileParser(content, label); parser.parse(): what a
\* call on document d returns when nothing else runs.
RecordAlone(d) == FallbackStep(SelfOf(d), StructuredStep(SelfOf(d)).data).data

PcAfter(step, pc_ok) == IF step.escaped THEN "raised" ELSE pc_ok

NewInst(d) == [doc |-> d, self |-> None]
NewCall(i) == [self |-> i, pc |-> "new", data |-> BaseData("")]

InitPair ==
  /\ ParseIdle
  /\ LoopIdle
  /\ pc = "pair"
  /\ amount_in = <<>>
  /\ amount_out = None
  /\ round_in = [text |-> <<>>, img |-> FALSE]
  /\ round_out = None
  /\ \E s \in FillSets(MaxPairFilled) :
       \E d2 \in {ApplyFills(BaseDoc, s), OtherDoc} :
         inst = <<NewInst(ApplyFills(BaseDoc, s)), NewInst(d2)>>
  /\ \E i \in {1, 2} : call = <<NewCall(1), NewCall(i)>>
  /\ files = <<>>
  /\ file_i = 0
  /\ results = <<>>
  /\ failed = <<>>
  /\ QueueIdle

PairUnchanged ==
  /\ UNCHANGED parseVars
  /\ UNCHANGED loopVars
  /\ UNCHANGED <<amountVars, roundVars, batchVars, queueVars>>

\* __init__ (23-37) of instance i.
PairConstruct(i) ==
  /\ inst[i].self = None
  /\ inst' = InstWith(inst, i, SelfOf(inst[i].doc))
  /\ UNCHANGED call
  /\ PairUnchanged

\* parse, 66-88, in call c.
PairStructured(c) ==
  /\ call[c].pc = "new"
  /\ inst[call[c].self].self # None
  /\ call' = [call EXCEPT
                ![c].data = StructuredStep(inst[call[c].self].self[1]).data,
                ![c].pc = PcAfter(StructuredStep(inst[call[c].self].self[1]),
                                  "structured")]
  /\ inst' = InstWith(inst, call[c].self,
                      SelfAfterParse(inst[call[c].self].self[1]))
  /\ PairUnchanged

\* parse, 90-110, in call c.
PairFallback(c) ==
  /\ call[c].pc = "structured"
  /\ call' = [call EXCEPT
                ![c].data = FallbackStep(inst[call[c].self].self[1], @).data,
                ![c].pc = PcAfter(FallbackStep(inst[call[c].self].self[1],
                                               call[c].data), "done")]
  /\ inst' = InstWith(inst, call[c].self,
                      SelfAfterParse(inst[call[c].self].self[1]))
  /\ PairUnchanged

NextPair ==
  \/ \E i \in {1, 2} : PairConstruct(i)
  \/ \E c \in {1, 2} : PairStructured(c)
  \/ \E c \in {1, 2} : PairFallback(c)

SpecPair == InitPair /\ [][NextPair]_vars

(***************************************************************************)
(* The batch runner: main of parse_all.py (19-63) and of                   *)
(* investor_parser/scripts/parse_all.py (64-113).  files is the list glob  *)
(* returned; a file is readable and accepted by the parser's constructor   *)
(* ("ok"), or open/read raises ("unreadable"), or the constructor raises   *)
(* ("rejected").  pc says which of the two runners is running.             *)
(***************************************************************************)
MaxFiles == 3

AnnDoc ==
  ApplyFill(BaseDoc, <<"profile", "person",
                       [st |-> "ok", name |-> Some("Ann"), links |-> <<>>]>>)

FileKinds ==
  { [name |-> "1.html", st |-> "ok", doc |-> AnnDoc],
    [name |-> "2.html", st |-> "ok", doc |-> OtherDoc],
    [name |-> "3.html", st |-> "ok", doc |-> BaseDoc],
    [name |-> "4.html", st |-> "unreadable", doc |-> BaseDoc],
    [name |-> "5.html", st |-> "rejected", doc |-> AnnDoc],
    [name |-> "6.html", st |-> "unreadable", doc |-> OtherDoc] }

Distinct(fs) == \A i, j \in 1..Len(fs) : i # j => fs[i].name # fs[j].name

Runners == {"root", "script"}

\* 31-36: the try block on one file; the parser is given the file's content
\* and the file's name as the source label.
TryFile(f) ==
  IF f.st = "ok"
    THEN Ok(RecordAlone([f.doc EXCEPT !.source_file = f.name]))
    ELSE Raise(BaseData(f.name))

\* A variant of ResultsAfter: a failed file leaves an empty record behind.
ResultsAfterPadded(rs, t) == Append(rs, t.data)

\* 39 and 41-42: results.append runs only when nothing raised before it.
ResultsAfter(rs, t) == IF t.raised THEN rs ELSE Append(rs, t.data)

\* 41-42: logger.error names the file.
FailedAfter(fl, f, t) == IF t.raised THEN Append(fl, f.name) ELSE fl

InitBatch ==
  /\ ParseIdle
  /\ LoopIdle
  /\ pc \in Runners
  /\ amount_in = <<>>
  /\ amount_out = None
  /\ round_in = [text |-> <<>>, img |-> FALSE]
  /\ round_out = None
  /\ inst = <<>>
  /\ call = <<>>
  /\ files \in {fs \in SeqsUpTo(FileKinds, MaxFiles) : Distinct(fs)}
  /\ file_i = 1
  /\ results = <<>>
  /\ failed = <<>>
  /\ QueueIdle

BatchUnchanged ==
  /\ UNCHANGED <<doc, apollo_state, investor_id, person_id, apollo_ran,
                 apollo_data, html_ran, html_data, data, escaped>>
  /\ UNCHANGED loopVars
  /\ UNCHANGED <<amountVars, roundVars, pairVars, queueVars>>

\* One iteration of the loop (28-42; 81-98).
BatchFile ==
  /\ pc \in Runners
  /\ file_i <= Len(files)
  /\ results' = ResultsAfter(results, TryFile(files[file_i]))
  /\ failed' = FailedAfter(failed, files[file_i], TryFile(files[file_i]))
  /\ file_i' = file_i + 1
  /\ UNCHANGED <<pc, files>>
  /\ BatchUnchanged

\* After the loop (44-49; 100-113): the records are written, except that the
\* runner of the package writes nothing when there is none.
BatchSave ==
  /\ pc \in Runners
  /\ file_i > Len(files)
  /\ pc' = IF pc = "script" /\ results = <<>> THEN "unsaved" ELSE "saved"
  /\ UNCHANGED <<files, file_i, results, failed>>
  /\ BatchUnchanged

NextBatch == BatchFile \/ BatchSave

SpecBatch == InitBatch /\ [][NextBatch]_vars

(***************************************************************************)
(* The position and firm lookups of the heuristic pass (311-345) on their  *)
(* own: a page that holds nothing but a "Current Investing Position" row   *)
(* and a secondary subheader.  Beside what HtmlPositionRow reads, the row  *)
(* carries link_text, the text of the hyperlink of the value cell, and     *)
(* rest, the value text without the hyperlink's text and the separators    *)
(* around it; in a row without a middle dot these are firm and position.   *)
(***************************************************************************)
PosRows ==
  { [st |-> "absent", firm |-> "", position |-> "", link |-> FALSE,
     link_text |-> "", rest |-> ""] }
  \cup { [st |-> "dot", firm |-> f, position |-> p, link |-> FALSE,
          link_text |-> "", rest |-> ""] :
           f \in {"", "Acme"}, p \in {"", "GP"} }
  \cup { [st |-> "dot", firm |-> f, position |-> p, link |-> TRUE,
          link_text |-> "LinkCo", rest |-> r] :
           f \in {"", "Acme"}, p \in {"", "GP"}, r \in {"", "VP"} }
  \cup { [st |-> "nodot", firm |-> "", position |-> r, link |-> FALSE,
          link_text |-> "", rest |-> r] : r \in {"", "VP"} }
  \cup { [st |-> "nodot", firm |-> t, position |-> r, link |-> TRUE,
          link_text |-> t, rest |-> r] :
           t \in {"", "LinkCo"}, r \in {"", "VP"} }

Subheaders ==
  { [st |-> "absent", position |-> "", firm |-> ""] }
  \cup { [st |-> "at", position |-> p, firm |-> f] :
           p \in {"", "Investor"}, f \in {"", "SubCo"} }

InitPosition ==
  /\ OtherIdle
  /\ LoopIdle
  /\ \E r \in PosRows, sub \in Subheaders :
       doc = [BaseDoc EXCEPT !.blob = "absent", !.html.posrow = r,
                             !.html.subheader = sub]
  /\ pc = "position"
  /\ apollo_state = None
  /\ investor_id = None
  /\ person_id = None
  /\ apollo_ran = FALSE
  /\ apollo_data = ApolloBaseData
  /\ html_ran = FALSE
  /\ html_data = HtmlBaseData
  /\ data = BaseData("")
  /\ escaped = FALSE

\* 268-563 on that page: html_data holds what the pass returned.
PositionLookups ==
  /\ pc = "position"
  /\ html_data' = ParseFromHtml(doc.html).data
  /\ html_ran' = TRUE
  /\ pc' = "position_done"
  /\ UNCHANGED <<doc, apollo_state, investor_id, person_id, apollo_ran,
                 apollo_data, data, escaped>>
  /\ UNCHANGED loopVars
  /\ UNCHANGED otherVars

NextPosition == PositionLookups

SpecPosition == InitPosition /\ [][NextPosition]_vars

(***************************************************************************)
(* The structured pass (112-266) on a profile that holds nothing but a     *)
(* target_investment attribute: a number, or a string of at most           *)
(* MaxTargetLen of the characters TargetChars.                             *)
(***************************************************************************)
MaxTargetLen == 2

TargetChars == {"0", "1", "-", "$", "K", ".", "x"}

TargetNumbers == -2..2

TargetAttributes ==
  { [kind |-> "absent", s |-> <<>>, n |-> 0] }
  \cup { [kind |-> "num", s |-> <<>>, n |-> n] : n \in TargetNumbers }
  \cup { [kind |-> "str", s |-> s, n |-> 0] :
           s \in SeqsUpTo(TargetChars, MaxTargetLen) }

InitTarget ==
  /\ OtherIdle
  /\ LoopIdle
  /\ \E a \in TargetAttributes :
       doc = [BaseDoc EXCEPT !.graph.profile.target_investment = a]
  /\ pc = "target"
  /\ apollo_state = DecodedState(doc)
  /\ investor_id = ProfileIdOf(doc)
  /\ person_id = PersonIdOf(doc)
  /\ apollo_ran = FALSE
  /\ apollo_data = ApolloBaseData
  /\ html_ran = FALSE
  /\ html_data = HtmlBaseData
  /\ data = BaseData("")
  /\ escaped = FALSE

\* 112-266 on that profile: apollo_data holds what the pass returned.
TargetPass ==
  /\ pc = "target"
  /\ apollo_data' = ParseFromApolloState(apollo_state[1], investor_id[1]).data
  /\ apollo_ran' = TRUE
  /\ pc' = "target_done"
  /\ UNCHANGED <<doc, apollo_state, investor_id, person_id, html_ran,
                 html_data, data, escaped>>
  /\ UNCHANGED loopVars
  /\ UNCHANGED otherVars

NextTarget == TargetPass

SpecTarget == InitTarget /\ [][NextTarget]_vars

(***************************************************************************)
(* The URL queue (core/queue/url_queue.py) under the scrape loop           *)
(* (scripts/scrape_profiles.py, main 150-218) run without --limit.  The    *)
(* URL file lists at most MaxUrls URLs; the process may stop anywhere and  *)
(* be started again, at most MaxRuns times in all.  Only the state file    *)
(* outlives a run.  An item is [status, retry_count]; indexes count from   *)
(* 0 as in the code.                                                       *)
(***************************************************************************)
MaxUrls == 3
MaxRuns == 3
MaxRetries == 3

\* 18-24: URLItem(url, name)
NewItem == [status |-> "pending", retry_count |-> 0]

\* A variant of Eligible: an item left in progress is handed out as well.
EligibleInProgress(item) ==
  \/ item.status \in {"pending", "in_progress"}
  \/ item.status = "failed" /\ item.retry_count < MaxRetries

\* 257: the item is pending, or failed with retries left.
Eligible(item) ==
  \/ item.status = "pending"
  \/ item.status = "failed" /\ item.retry_count < MaxRetries

\* 120-124: the saved index, or 0 when it is past the end.
LoadedIndex(saved) ==
  IF saved.current_index >= Len(saved.items) THEN 0 ELSE saved.current_index

\* 277-279: update_status returns at once on an index out of range.
ValidIndex(its, index) == index >= 0 /\ index < Len(its)

\* 281-297: the new status, and one more retry when it is "failed".
UpdateStatus(its, index, status) ==
  IF ~ValidIndex(its, index) THEN its
  ELSE [its EXCEPT ![index + 1] =
          [status |-> status,
           retry_count |-> IF status = "failed" THEN @.retry_count + 1
                           ELSE @.retry_count]]

\* 141-148: what save_state writes.
Saved(its, index) == Some([items |-> its, current_index |-> index])

InitQueue ==
  /\ OtherIdle
  /\ ParseIdle
  /\ LoopIdle
  /\ pc = "start"

QueueOthers ==
  /\ UNCHANGED <<doc, apollo_state, investor_id, person_id, apollo_ran,
                 apollo_data, html_ran, html_data, data, escaped>>
  /\ UNCHANGED loopVars
  /\ UNCHANGED <<amountVars, roundVars, pairVars, batchVars>>

\* main 150-160 on the first run: no state file (111-113); add_urls_from_file
\* (207-229) adds the n URLs of the file and add_url saves after each.
QueueFirstStart ==
  /\ pc = "start"
  /\ state_file = None
  /\ \E n \in 0..MaxUrls :
       /\ items' = [i \in 1..n |-> NewItem]
       /\ handed' = [i \in 1..n |-> 0]
       /\ state_file' = IF n = 0 THEN None ELSE Saved([i \in 1..n |-> NewItem], 0)
  /\ current_index' = 0
  /\ runs' = runs + 1
  /\ pc' = "loop"
  /\ UNCHANGED <<start_index, next_url>>
  /\ QueueOthers

\* main 150-160 on a later run: load_state (115-127) reads the file; every
\* URL of the URL file is in the queue already (166-168).
QueueReload ==
  /\ pc = "start"
  /\ state_file # None
  /\ items' = state_file[1].items
  /\ current_index' = LoadedIndex(state_file[1])
  /\ runs' = runs + 1
  /\ pc' = "loop"
  /\ UNCHANGED <<state_file, start_index, next_url, handed>>
  /\ QueueOthers

\* get_next_url, 242-244, and main 172-174: the queue is empty.
QueueEmpty ==
  /\ pc = "loop"
  /\ items = <<>>
  /\ next_url' = None
  /\ pc' = "ended"
  /\ UNCHANGED <<items, current_index, state_file, start_index, handed, runs>>
  /\ QueueOthers

\* get_next_url, 246-247
ScanBegin ==
  /\ pc = "loop"
  /\ items # <<>>
  /\ start_index' = current_index
  /\ pc' = "scan"
  /\ UNCHANGED <<items, current_index, state_file, next_url, handed, runs>>
  /\ QueueOthers

\* get_next_url, 249-263: one iteration of the while loop; on None main
\* leaves its own loop (172-174).
ScanStep ==
  /\ pc = "scan"
  /\ current_index' = (current_index + 1) % Len(items)
  /\ next_url' = IF Eligible(items[current_index + 1])
                   THEN Some([item |-> items[current_index + 1],
                              index |-> current_index])
                   ELSE None
  /\ pc' = IF Eligible(items[current_index + 1]) THEN "got"
           ELSE IF current_index' = start_index THEN "ended"
           ELSE "scan"
  /\ UNCHANGED <<items, state_file, start_index, handed, runs>>
  /\ QueueOthers

\* main 176-179: update_status(index, "in_progress").
MarkInProgress ==
  /\ pc = "got"
  /\ items' = UpdateStatus(items, next_url[1].index, "in_progress")
  /\ state_file' = IF ValidIndex(items, next_url[1].index)
                     THEN Saved(items', current_index) ELSE state_file
  /\ handed' = [handed EXCEPT ![next_url[1].index + 1] = @ + 1]
  /\ pc' = "process"
  /\ UNCHANGED <<current_index, start_index, next_url, runs>>
  /\ QueueOthers

\* main 181-194: process_url gave a path; update_status(index, "completed").
Completed ==
  /\ pc = "process"
  /\ items' = UpdateStatus(items, next_url[1].index, "completed")
  /\ state_file' = IF ValidIndex(items, next_url[1].index)
                     THEN Saved(items', current_index) ELSE state_file
  /\ pc' = "loop"
  /\ UNCHANGED <<current_index, start_index, next_url, handed, runs>>
  /\ QueueOthers

\* main 195-202: process_url gave None or raised; update_status(index, "failed").
Failed ==
  /\ pc = "process"
  /\ items' = UpdateStatus(items, next_url[1].index, "failed")
  /\ state_file' = IF ValidIndex(items, next_url[1].index)
                     THEN Saved(items', current_index) ELSE state_file
  /\ pc' = "loop"
  /\ UNCHANGED <<current_index, start_index, next_url, handed, runs>>
  /\ QueueOthers

\* The process stops, or has ended, and is started again: what it held in
\* memory is lost, the state file stays.
Restart ==
  /\ pc \in {"loop", "scan", "got", "process", "ended"}
  /\ runs < MaxRuns
  /\ items' = <<>>
  /\ current_index' = 0
  /\ start_index' = 0
  /\ next_url' = None
  /\ pc' = "start"
  /\ UNCHANGED <<state_file, handed, runs>>
  /\ QueueOthers

QueueRun ==
  \/ QueueFirstStart
  \/ QueueReload
  \/ QueueEmpty
  \/ ScanBegin
  \/ ScanStep
  \/ MarkInProgress
  \/ Completed
  \/ Failed

NextQueue == QueueRun \/ Restart

SpecQueue == InitQueue /\ [][NextQueue]_vars

\* A started process runs on until it ends or is stopped.
SpecQueueLive == SpecQueue /\ WF_vars(QueueRun)

(***************************************************************************)
(* Properties of parse.                                                    *)
(***************************************************************************)
RecordKeys ==
  {"name", "position", "firm", "location", "investment_range",
   "areas_of_interest", "not_interested_in", "investments", "investment_count",
   "links", "extraction_method", "source_file"}

RangeKeys == {"min", "max", "target"}

Complete(d) ==
  /\ RecordKeys \subseteq DOMAIN d
  /\ RangeKeys \subseteq DOMAIN d.investment_range

\* What the heuristic pass finds in the document, whether parse runs it or not.
Heuristic == ParseFromHtml(doc.html).data

\* C1: whichever passes ran, failed or found nothing, the record parse returns
\* has every declared key, and its investment_range has min, max and target.
C1_AllKeysPresent == pc = "done" => Complete(data)

\* A returned record after both passes ran and both raised inside.
C1_Witness ==
  /\ pc = "done" /\ apollo_ran /\ html_ran
  /\ doc.graph.profile.firm.st = "noid"
  /\ doc.html.sector.st = "nonext"
  /\ Complete(data)

\* C2: the extraction_method of a returned record is one of "apollo_state",
\* "html" and "mixed", never None.
C2_MethodLabelled ==
  pc = "done" =>
    data.extraction_method \in {Some("apollo_state"), Some("html"), Some("mixed")}

\* A returned record whose structured pass was never tried.
C2_Witness ==
  pc = "done" /\ ~apollo_ran /\ html_ran /\ data.extraction_method = Some("html")

\* The final value of a field whose pass gave nothing: the other pass's value
\* when the heuristic pass ran and has one, else empty.
FromHeuristicOrEmpty(field) ==
  IF html_ran /\ Truthy(field, Get(html_data, field))
    THEN data[field] = html_data[field]
    ELSE ~Truthy(field, data[field])

C4_StructuredWins ==
  pc = "done" /\ apollo_ran =>
    \A f \in DOMAIN ApolloBaseData \ {"investment_range"} :
      Truthy(f, apollo_data[f]) => data[f] = apollo_data[f]

\* The structured firm "Acme" against the heuristic firm "Other".
C4_Witness ==
  /\ pc = "done" /\ apollo_ran /\ html_ran
  /\ apollo_data.firm = Some("Acme") /\ html_data.firm = Some("Other")
  /\ data.firm = Some("Acme")

\* C5 as stated: the heuristic pass runs on every call, and a field that the
\* structured pass left empty and the heuristic pass can fill holds the
\* heuristic value in the final record.
C5_HeuristicAlwaysFills ==
  pc = "done" =>
    /\ html_ran
    /\ \A f \in DOMAIN HtmlBaseData \ {"investment_range"} :
         (~Truthy(f, Get(apollo_data, f)) /\ Truthy(f, Heuristic[f]))
           => Get(data, f) = Heuristic[f]

\* C5 amended: the heuristic pass runs exactly when the structured pass left
\* the name or the investments list empty.  When it runs, a field that the
\* structured pass left empty and the heuristic pass filled holds the heuristic
\* value; when it does not run, every field holds the structured value.
C5_HeuristicFillsWhenNeeded ==
  pc = "done" =>
    /\ html_ran <=> ~(TruthyStr(apollo_data.name) /\ TruthySeq(apollo_data.investments))
    /\ html_ran =>
         \A f \in DOMAIN HtmlBaseData \ {"investment_range"} :
           (~Truthy(f, Get(apollo_data, f)) /\ Truthy(f, html_data[f]))
             => Get(data, f) = html_data[f]
    /\ ~html_ran => \A f \in DOMAIN apollo_data : data[f] = apollo_data[f]

\* The structured pass gave a name and no investments; the firm comes from
\* the heuristic pass.
C5_Witness ==
  /\ pc = "done" /\ apollo_ran /\ html_ran
  /\ TruthyStr(apollo_data.name) /\ ~TruthyStr(apollo_data.firm)
  /\ TruthyStr(html_data.firm) /\ data.firm = html_data.firm

\* The value of a range sub-field merged from s and h: s when it is not empty,
\* else h when it is not empty, else empty.
RangeMerged(final, s, h) ==
  IF TruthyInt(s) THEN final = s
  ELSE IF TruthyInt(h) THEN final = h
  ELSE ~TruthyInt(final)

\* C6 as stated: each of min, max and target is the structured value when it
\* is not empty, else the heuristic value.
C6_RangePerSubfield ==
  pc = "done" =>
    \A t \in RangeKeys :
      RangeMerged(data.investment_range[t], apollo_data.investment_range[t],
                  Heuristic.investment_range[t])

\* C6 amended: that holds whenever the heuristic pass runs (the structured
\* pass left the name or the investments list empty); when it does not run,
\* each sub-field keeps the structured value.
C6_RangePerSubfieldWhenMerged ==
  pc = "done" =>
    /\ html_ran =>
         \A t \in RangeKeys :
           RangeMerged(data.investment_range[t], apollo_data.investment_range[t],
                       html_data.investment_range[t])
    /\ ~html_ran => data.investment_range = apollo_data.investment_range

\* The structured pass gives only min, the heuristic pass only max.
C6_Witness ==
  /\ pc = "done" /\ apollo_ran /\ html_ran
  /\ TruthyInt(apollo_data.investment_range.min)
  /\ apollo_data.investment_range.max = None
  /\ html_data.investment_range.min = None
  /\ TruthyInt(html_data.investment_range.max)
  /\ data.investment_range.min = apollo_data.investment_range.min
  /\ data.investment_range.max = html_data.investment_range.max

\* C7: extraction_method is "apollo_state" exactly when the structured pass
\* supplied a name and investments, "html" exactly when it supplied neither,
\* and "mixed" otherwise.
C7_MethodBySupply ==
  pc = "done" =>
    data.extraction_method =
      IF TruthyStr(apollo_data.name) /\ TruthySeq(apollo_data.investments)
        THEN Some("apollo_state")
      ELSE IF ~TruthyStr(apollo_data.name) /\ ~TruthySeq(apollo_data.investments)
        THEN Some("html")
      ELSE Some("mixed")

AmountRowsRaise(h) ==
  \/ /\ h.range.st = "row" /\ Len(h.range.parts) = 2
     /\ \/ ParseAmount(StripChars(h.range.parts[1])).raised
        \/ ParseAmount(StripChars(h.range.parts[2])).raised
  \/ h.sweet.has /\ ParseAmount(h.sweet.s).raised
  \/ h.fund.has /\ ParseAmount(h.fund.s).raised

\* The integer of the page's "Investments on record" row, 0 without one.
LabelCount(h) ==
  IF h.count.has /\ h.count.numeric /\ ~AmountRowsRaise(h) THEN Some(h.count.n)
  ELSE Some(0)

Resolves(e) == e.node = "dict" /\ e.company.st = "ok" /\ TruthyStr(e.company.name)

\* The investment of an edge whose company resolves; the round label and the
\* amount are absent when the funding round reference does not resolve.
EntryOf(e) ==
  [company |-> e.company.name[1],
   round |-> IF e.funding_round.st = "ok" THEN e.funding_round.round_name ELSE None,
   date |-> e.date,
   amount |-> IF e.funding_round.st = "ok" /\ TruthyInt(e.funding_round.amount)
                THEN e.funding_round.amount ELSE None,
   is_lead |-> e.is_lead]

RECURSIVE Emitted(_)
Emitted(es) ==
  IF es = <<>> THEN <<>>
  ELSE (IF Resolves(Head(es)) THEN <<EntryOf(Head(es))>> ELSE <<>>) \o Emitted(Tail(es))

\* C9: an edge whose company reference does not resolve to an entity with a
\* name is dropped, and every other edge is emitted, in the order of the
\* edges, with the content it has on its own.
C9_UnresolvedEdgeDropped ==
  pc = "edges_done" => edge_s.data.investments = Emitted(edges)

(***************************************************************************)
(* Properties of the table walk.                                           *)
(***************************************************************************)
IsCompanyRow(r) == ~r.cls /\ r.kind = "company"

\* A summary row lies between company row j and the next company row.
SummaryAfter(j) ==
  \E k \in (j + 1)..Len(rows) :
    /\ rows[k].kind = "summary"
    /\ \A m \in (j + 1)..(k - 1) : ~IsCompanyRow(rows[m])

\* No row of the company is followed by a summary row of its own.
NoSummaryFor(name) ==
  \A j \in 1..Len(rows) :
    (IsCompanyRow(rows[j]) /\ rows[j].name = name) => ~SummaryAfter(j)

\* Row i is the only row of its company, and the row after it is the only
\* summary row before the next company row.
OnlySummaryAt(i) ==
  /\ \A j \in 1..Len(rows) :
       (IsCompanyRow(rows[j]) /\ rows[j].name = rows[i].name) => j = i
  /\ \A k \in (i + 2)..Len(rows) :
       rows[k].kind = "summary" => \E m \in (i + 2)..(k - 1) : IsCompanyRow(rows[m])

CoinvestorsOf(name) == walk.dict[IndexOfCompany(walk.dict, name)].coinvestors

\* C10: when a summary row follows the row of company A and a later company B
\* has no summary row, the names of the summary row are the co-investors of A
\* and B has none.
C10_NamesOnlyOnA ==
  pc = "walk_done" =>
    \A i, j \in 1..Len(rows) :
      ( /\ i + 1 < j
        /\ IsCompanyRow(rows[i]) /\ rows[i].name # ""
        /\ rows[i + 1].kind = "summary"
        /\ OnlySummaryAt(i)
        /\ IsCompanyRow(rows[j]) /\ rows[j].name # rows[i].name
        /\ NoSummaryFor(rows[j].name) )
      => /\ HasCompany(walk.dict, rows[i].name)
         /\ HasCompany(walk.dict, rows[j].name)
         /\ CoinvestorsOf(rows[i].name) =
              [k \in 1..Len(rows[i + 1].names) |-> rows[i + 1].names[k].name]
         /\ CoinvestorsOf(rows[j].name) = <<>>

\* The walk of A, its summary row naming Kim and Lee, then B.
C10_Witness ==
  /\ pc = "walk_done"
  /\ rows = <<CompanyRowOf("A", <<SeedRound>>), SummaryRowOf(TRUE, <<Kim, Lee>>),
              CompanyRowOf("B", <<>>)>>
  /\ CoinvestorsOf("A") = <<"Kim", "Lee">>
  /\ CoinvestorsOf("B") = <<>>

(***************************************************************************)
(* More properties of parse.                                               *)
(***************************************************************************)
\* C12: the source_file of the record parse builds and returns is the source
\* label given to the parser, whichever passes ran.
C12_SourceFileEchoed ==
  pc \in {"structured", "done"} => data.source_file = doc.source_file

\* The label "b.html" after both passes ran and filled fields.
C12_Witness ==
  /\ pc = "done" /\ apollo_ran /\ html_ran
  /\ doc.source_file = "b.html" /\ data.source_file = "b.html"
  /\ TruthyStr(apollo_data.name) /\ TruthyStr(html_data.firm)

\* The final value of a field is the heuristic one, or both are empty.
SameAsHeuristic(f) ==
  \/ Get(data, f) = html_data[f]
  \/ ~Truthy(f, Get(data, f)) /\ ~Truthy(f, html_data[f])

AmountsParse(p) ==
  \A a \in {p.min_investment, p.max_investment, p.target_investment} :
    a.kind = "str" => ~ParseAmount(a.s).raised

\* The profile entity of the document, when the structured pass reads one.
ProfileRead ==
  /\ apollo_ran
  /\ doc.graph.entity = "dict"
  /\ doc.graph.key = <<"PublicInvestorProfile", investor_id[1]>>

\* C19: in the structured pass, a reference that does not resolve, or that
\* lacks its typename or id, leaves only its own field empty: every field has
\* the value its own extraction gives, and no exception leaves the extractor.
C19_FieldFailureIsolated ==
  (pc = "done" /\ ProfileRead /\ AmountsParse(doc.graph.profile)) =>
    /\ ~escaped
    /\ apollo_data.name = ApolloPerson(ApolloBaseData, doc.graph.profile).data.name
    /\ apollo_data.links = ApolloPerson(ApolloBaseData, doc.graph.profile).data.links
    /\ apollo_data.position = doc.graph.profile.position
    /\ apollo_data.firm = ApolloFirm(ApolloBaseData, doc.graph.profile).data.firm
    /\ apollo_data.location =
         ApolloLocation(ApolloBaseData, doc.graph.profile).data.location
    /\ apollo_data.investment_range =
         ApolloRange(ApolloBaseData, doc.graph.profile).data.investment_range
    /\ apollo_data.areas_of_interest =
         ApolloAreas(ApolloBaseData, doc.graph.profile).data.areas_of_interest
    /\ apollo_data.not_interested_in =
         ApolloAreas(ApolloBaseData, doc.graph.profile).data.not_interested_in
    /\ apollo_data.investment_count =
         ApolloInvestments(ApolloBaseData, doc.graph.profile).data.investment_count
    /\ apollo_data.investments =
         Emitted(doc.graph.profile.investments_on_record.edges.list)

\* C20: in the heuristic pass, a structural mismatch in one lookup leaves only
\* its own field empty: the lookups after the sector section (co_investors,
\* scouts_angels, the investments table) are performed and fill their fields.
C20_LookupFailureIsolated ==
  (pc = "done" /\ html_ran) =>
    /\ html_data.co_investors = HtmlCoInvestors(HtmlBaseData, doc.html).data.co_investors
    /\ html_data.scouts_angels = HtmlScouts(HtmlBaseData, doc.html).data.scouts_angels
    /\ html_data.investments = HtmlInvestments(HtmlBaseData, doc.html).data.investments

(***************************************************************************)
(* Properties of the amount normalizer.                                    *)
(***************************************************************************)
\* The string without the currency symbol, the separators and the blanks
\* around it.
Cleaned(s) == StripChars(RemoveSymbols(s))

HasSuffix(t) == t # <<>> /\ t[Len(t)] \in {"K", "M", "B"}

\* The power of ten of the suffix, and the text before it.
SuffixExp(t) ==
  IF ~HasSuffix(t) THEN 0
  ELSE CASE t[Len(t)] = "K" -> 3 [] t[Len(t)] = "M" -> 6 [] t[Len(t)] = "B" -> 9

NumberText(t) == IF HasSuffix(t) THEN SubSeq(t, 1, Len(t) - 1) ELSE t

Unsigned(t) == IF t # <<>> /\ Head(t) \in {"-", "+"} THEN Tail(t) ELSE t

\* Digits with at most one decimal point, and at least one digit.
IsDigits(u) ==
  /\ \A i \in 1..Len(u) : u[i] \in DigitChars \cup {"."}
  /\ Cardinality({i \in 1..Len(u) : u[i] = "."}) <= 1
  /\ \E i \in 1..Len(u) : u[i] \in DigitChars

\* A decimal, with an optional sign and blanks around it.
IsDecimal(t) == IsDigits(Unsigned(StripChars(t)))

\* The string is a recognized amount: a decimal and an optional suffix.
Recognized(s) == s # <<>> /\ IsDecimal(NumberText(Cleaned(s)))

\* mant / 10^frac times 10^e, truncated, in decimal arithmetic.
ExactTimes(mant, frac, e) ==
  IF e >= frac THEN mant * Pow10(e - frac) ELSE mant \div Pow10(frac - e)

ExactOfFloat(f, e) ==
  IF f.neg THEN 0 - ExactTimes(f.mant, f.frac, e) ELSE ExactTimes(f.mant, f.frac, e)

\* The decimal of the string times the power of ten of its suffix, truncated.
ExactAmount(s) ==
  ExactOfFloat(PyFloat(NumberText(Cleaned(s))), SuffixExp(Cleaned(s)))

\* C13: the amount normalizer multiplies the decimal before a trailing K, M
\* or B by 10^3, 10^6 or 10^9 and truncates it to an integer, and reads a
\* string without a suffix as a plain decimal.
C13_SuffixMultiplies ==
  (pc = "amount_done" /\ Recognized(amount_in)) =>
    amount_out[1] = [raised |-> FALSE, val |-> Some(ExactAmount(amount_in))]

\* C14: for a string that is not a recognized amount the amount normalizer
\* returns None and does not raise.
C14_UnrecognizedIsAbsent ==
  (pc = "amount_done" /\ ~Recognized(amount_in)) =>
    amount_out[1] = [raised |-> FALSE, val |-> None]

(***************************************************************************)
(* C15.  The separators are tried in order and the tokens are assigned by  *)
(* position.                                                               *)
(***************************************************************************)
HasToken(ts, t) == \E i \in 1..Len(ts) : ts[i] = t

\* The tokens as the documentation orders the attempts: the bullet split,
\* the " - " split when that left one token, the search when still one.
ByBullet(ts) == SplitOn(ts, Bullet, <<>>)
ByDash(ts) == SplitOn(ts, Dash, <<>>)
BySearch(ts) ==
  FirstMatch(ts, StageTokens) \o FirstMatch(ts, DateTokens)
    \o FirstMatch(ts, AmountTokens)
TokensInOrder(ts) ==
  IF Len(ByBullet(ts)) > 1 THEN ByBullet(ts)
  ELSE IF Len(ByDash(ts)) > 1 THEN ByDash(ts)
  ELSE BySearch(ts)

Assigned(toks, raw) ==
  CASE Len(toks) = 3 -> <<Some(toks[1]), Some(toks[2]), Some(toks[3])>>
    [] Len(toks) = 2 -> <<Some(toks[1]), Some(toks[2]), None>>
    [] Len(toks) = 1 -> <<Some(toks[1]), None, None>>
    [] Len(toks) = 0 -> <<Some(raw), None, None>>
    [] OTHER -> <<Some(toks[1]), Some(toks[2]), Some(toks[3])>>

RoundTriple(r) == <<r.stage, r.date, r.amount>>

\* C15: the entry of a round text holds the tokens of the first attempt, in
\* the order bullet, " - ", search, that gave more than one token (the
\* search's tokens if none did), assigned by position: three as stage, date
\* and amount, two as stage and date, one as stage, none makes the stripped
\* text the stage.
C15_SplitOrderAndArity ==
  pc = "round_done" =>
    RoundTriple(round_out[1]) =
      Assigned(TokensInOrder(StripTokens(round_in.text)),
               JoinTokens(StripTokens(round_in.text)))

\* C15: the two examples of the documentation come out as written.
C15_Examples ==
  pc = "round_done" =>
    /\ round_in.text = <<"Series A", Space, Bullet, Space, "Jan 2020", Space,
                         Bullet, Space, "$5M">>
         => RoundTriple(round_out[1]) = <<<<"Series A">>, <<"Jan 2020">>, <<"$5M">>>>
    /\ round_in.text = <<"Seed">>
         => RoundTriple(round_out[1]) = <<<<"Seed">>, None, None>>

C15_Rule == C15_SplitOrderAndArity /\ C15_Examples

\* A text without a bullet that " - " leaves whole, parsed by the search.
C15_Witness ==
  /\ pc = "round_done"
  /\ ~HasToken(round_in.text, Bullet)
  /\ ~HasToken(round_in.text, Dash)
  /\ HasToken(round_in.text, "foo")
  /\ RoundTriple(round_out[1]) = <<<<"Series A">>, <<"$5M">>, None>>


(***************************************************************************)
(* C11 and C17.  Calls of parse on one document agree, and calls on        *)
(* different documents do not touch each other.                            *)
(***************************************************************************)
DocOfCall(c) == inst[call[c].self].doc

C17_CallsIndependent ==
  (pc = "pair" /\ DocOfCall(1) # DocOfCall(2)) =>
    \A c \in {1, 2} :
      call[c].pc = "done" => call[c].data = RecordAlone(DocOfCall(c))

\* The second instance was built and its call reached the fallback before the
\* first call ran its structured pass; both calls then finished.
C17_Witness ==
  /\ pc = "pair"
  /\ DocOfCall(1) # DocOfCall(2)
  /\ call[1].pc = "done" /\ call[2].pc = "done"
  /\ call[1].data.extraction_method = Some("mixed")
  /\ call[1].data.firm = Some("Acme")
  /\ call[2].data.name = Some("Bob")
  /\ call[2].data.source_file = "b.html"


(***************************************************************************)
(* C18.  The batch runner keeps going after a failure and collects the     *)
(* records of the files that succeeded, in order.                          *)
(***************************************************************************)
BatchPcs == Runners \cup {"saved", "unsaved"}

RECURSIVE RecordsOfOk(_)
RecordsOfOk(fs) ==
  IF fs = <<>> THEN <<>>
  ELSE IF Head(fs).st = "ok"
    THEN <<RecordAlone([Head(fs).doc EXCEPT !.source_file = Head(fs).name])>>
           \o RecordsOfOk(Tail(fs))
    ELSE RecordsOfOk(Tail(fs))

RECURSIVE NamesOfFailed(_)
NamesOfFailed(fs) ==
  IF fs = <<>> THEN <<>>
  ELSE IF Head(fs).st = "ok" THEN NamesOfFailed(Tail(fs))
  ELSE <<Head(fs).name>> \o NamesOfFailed(Tail(fs))

Visited == SubSeq(files, 1, file_i - 1)

\* C18: the files are taken one by one in list order; the records collected
\* are those of the visited files that could be read and parsed, in that
\* order, the failures logged are the other visited files, and the runner
\* ends only when every file has been visited.
C18_PartialBatch ==
  pc \in BatchPcs =>
    /\ results = RecordsOfOk(Visited)
    /\ failed = NamesOfFailed(Visited)
    /\ Len(results) + Len(failed) = file_i - 1
    /\ pc \in {"saved", "unsaved"} => file_i = Len(files) + 1

\* A run that ended with a failed file between two that succeeded.
C18_Witness ==
  /\ pc = "saved"
  /\ Len(files) = 3
  /\ files[1].st = "ok" /\ files[2].st # "ok" /\ files[3].st = "ok"
  /\ Len(results) = 2
  /\ results[1].source_file = files[1].name
  /\ results[2].source_file = files[3].name
  /\ failed = <<files[2].name>>


(***************************************************************************)
(* C21.  No investment without a company name.                             *)
(***************************************************************************)
\* The structured side of C21: every investment the edge loop has appended
\* names its company.
StructuredCompaniesNamed ==
  \A k \in 1..Len(edge_s.data.investments) :
    edge_s.data.investments[k].company # ""

\* C21: every entry of the investments list that the table walk returns has
\* a non-empty company name.
C21_CompanyNamed ==
  pc = "walk_done" => \A k \in 1..Len(walk.dict) : walk.dict[k].company # ""

(***************************************************************************)
(* C22.  One entry per company name, at its first appearance, with the     *)
(* rounds of all its rows.                                                 *)
(***************************************************************************)
InSeq(x, sq) == \E k \in 1..Len(sq) : sq[k] = x

\* The company names of the company rows, each once, in the order of their
\* first appearance; seen holds those met so far.
RECURSIVE FirstAppearances(_, _)
FirstAppearances(rs, seen) ==
  IF rs = <<>> THEN seen
  ELSE IF IsCompanyRow(Head(rs)) /\ ~InSeq(Head(rs).name, seen)
    THEN FirstAppearances(Tail(rs), Append(seen, Head(rs).name))
    ELSE FirstAppearances(Tail(rs), seen)

\* The round fragments of the company rows of one name, in row order.
RECURSIVE FragmentsOf(_, _)
FragmentsOf(rs, name) ==
  IF rs = <<>> THEN <<>>
  ELSE IF IsCompanyRow(Head(rs)) /\ Head(rs).name = name
    THEN Head(rs).rounds \o FragmentsOf(Tail(rs), name)
    ELSE FragmentsOf(Tail(rs), name)

RoundsParsed(frags) == [r \in 1..Len(frags) |-> ParseRound(frags[r])]

\* C22: after the walk of any rows the investments list holds one entry for
\* each company name of a company row, in the order of the names' first
\* appearance, and the rounds of an entry are those of all rows of its
\* name, in row order.
C22_OneEntryPerCompany ==
  pc = "walk_done" =>
    /\ Len(walk.dict) = Len(FirstAppearances(rows, <<>>))
    /\ \A k \in 1..Len(walk.dict) :
         /\ walk.dict[k].company = FirstAppearances(rows, <<>>)[k]
         /\ walk.dict[k].rounds =
              RoundsParsed(FragmentsOf(rows, walk.dict[k].company))
    /\ \A k, m \in 1..Len(walk.dict) :
         walk.dict[k].company = walk.dict[m].company => k = m

\* Company A in two rows with a row of B between them: A comes first and
\* holds both rounds, in row order.
C22_Witness ==
  /\ pc = "walk_done"
  /\ rows = <<CompanyRowOf("A", <<SeedRound>>), CompanyRowOf("B", <<>>),
              CompanyRowOf("A", <<LeadRound>>)>>
  /\ Len(walk.dict) = 2
  /\ walk.dict[1].company = "A"
  /\ Len(walk.dict[1].rounds) = 2
  /\ walk.dict[1].rounds[1].stage = Some("Seed")
  /\ walk.dict[1].rounds[2].stage = Some("Series A")
  /\ walk.dict[2].company = "B"

(***************************************************************************)
(* C23.  A summary row counts only right after a company row.              *)
(***************************************************************************)
\* The summary rows that come immediately after a company row of the name.
SummariesRightAfter(name) ==
  {k \in 2..Len(rows) :
     /\ rows[k].kind = "summary"
     /\ IsCompanyRow(rows[k - 1])
     /\ rows[k - 1].name = name}

\* The names such rows give the company: those of the last of them.
AttachedNames(name) ==
  IF SummariesRightAfter(name) = {} THEN <<>>
  ELSE CoinvestorNames(
         rows[CHOOSE k \in SummariesRightAfter(name) :
                \A m \in SummariesRightAfter(name) : m <= k].names)

\* C23: after the walk the co-investors of every company are the names of
\* the summary row that came immediately after a row of that company, and a
\* summary row anywhere else has changed no company's co-investors.
C23_SummaryOnlyAfterCompany ==
  pc = "walk_done" =>
    \A e \in 1..Len(walk.dict) :
      walk.dict[e].company # "" =>
        walk.dict[e].coinvestors = AttachedNames(walk.dict[e].company)

(***************************************************************************)
(* C24.  The position and firm rules in their order.                       *)
(***************************************************************************)
BothSupplied(fp) == TruthyStr(fp.firm) /\ TruthyStr(fp.position)

\* Rule (1): the middle-dot split of the value text.
DotRule(r) ==
  IF r.st = "dot" THEN [firm |-> Some(r.firm), position |-> Some(r.position)]
  ELSE [firm |-> None, position |-> None]

\* Rule (2): the hyperlink text as firm, the residual text as position.
LinkRule(fp, r) ==
  IF r.st # "absent" /\ r.link
    THEN [firm |-> Some(r.link_text),
          position |-> IF r.rest # "" THEN Some(r.rest) ELSE fp.position]
    ELSE fp

\* Rule (3): the subheader split around "at".
AtRule(fp, sub) ==
  IF sub.st = "at"
    THEN [firm |-> Some(sub.firm), position |-> Some(sub.position)]
    ELSE fp

AfterLinkRule(fp, sub) == IF BothSupplied(fp) THEN fp ELSE AtRule(fp, sub)

AfterDotRule(fp, r, sub) ==
  IF BothSupplied(fp) THEN fp ELSE AfterLinkRule(LinkRule(fp, r), sub)

RulesInOrder(r, sub) == AfterDotRule(DotRule(r), r, sub)

\* C24: firm and position are what the rules give when tried in the order
\* middle-dot split, hyperlink, subheader, each later rule being tried
\* exactly when the earlier ones left firm or position empty.
C24_RulesInOrder ==
  pc = "position_done" =>
    /\ html_data.firm = RulesInOrder(doc.html.posrow, doc.html.subheader).firm
    /\ html_data.position =
         RulesInOrder(doc.html.posrow, doc.html.subheader).position

(***************************************************************************)
(* C25.  The structured target is positive or absent.                      *)
(***************************************************************************)
\* C25: after the structured pass the target of the investment range is
\* absent or a strictly positive integer, whether the profile gave it as a
\* number or as a string.
C25_TargetPositive ==
  pc = "target_done" =>
    \/ apollo_data.investment_range.target = None
    \/ apollo_data.investment_range.target[1] > 0

(***************************************************************************)
(* C26.  extraction_method names the sources that supplied something.      *)
(***************************************************************************)
\* The structured pass returned at least one non-empty value.
StructuredSupplied ==
  /\ apollo_ran
  /\ \/ \E f \in DOMAIN apollo_data \ {"investment_range"} :
          Truthy(f, apollo_data[f])
     \/ \E t \in RangeKeys : TruthyInt(apollo_data.investment_range[t])

\* The final record holds at least one non-empty value of the heuristic pass
\* that the structured pass did not give.
HeuristicSupplied ==
  /\ html_ran
  /\ \/ \E f \in DOMAIN html_data \ {"investment_range"} :
          /\ Truthy(f, html_data[f])
          /\ ~Truthy(f, Get(apollo_data, f))
          /\ Get(data, f) = html_data[f]
     \/ \E t \in RangeKeys :
          /\ TruthyInt(html_data.investment_range[t])
          /\ ~TruthyInt(apollo_data.investment_range[t])
          /\ data.investment_range[t] = html_data.investment_range[t]

\* C26: the label is "mixed" only when the structured pass and the heuristic
\* pass each supplied a non-empty value, "apollo_state" only when the
\* structured pass did, and "html" only when the heuristic pass did.
C26_MethodNamesSuppliers ==
  pc = "done" =>
    /\ data.extraction_method = Some("mixed")
         => StructuredSupplied /\ HeuristicSupplied
    /\ data.extraction_method = Some("apollo_state") => StructuredSupplied
    /\ data.extraction_method = Some("html") => HeuristicSupplied

(***************************************************************************)
(* C27.  The tokens of the search, each in its own field.                  *)
(***************************************************************************)
\* The round text has no bullet and " - " leaves it whole.
Searched(ts) == ~HasToken(ts, Bullet) /\ Len(ByDash(ts)) = 1

\* C27: when the round text is parsed by the token search and the search
\* finds something, the stage is the stage token found or absent, the date
\* the date token found or absent, the amount the amount token found or
\* absent.
C27_TokensInOwnFields ==
  ( /\ pc = "round_done"
    /\ Searched(StripTokens(round_in.text))
    /\ BySearch(StripTokens(round_in.text)) # <<>> )
  => RoundTriple(round_out[1]) =
       << FirstMatch(StripTokens(round_in.text), StageTokens),
          FirstMatch(StripTokens(round_in.text), DateTokens),
          FirstMatch(StripTokens(round_in.text), AmountTokens) >>

(***************************************************************************)
(* C28, C29 and C30.  The URL queue under the scrape loop.                 *)
(***************************************************************************)
\* An item get_next_url may hand out.
Retryable(item) ==
  \/ item.status = "pending"
  \/ item.status = "failed" /\ item.retry_count < 3

\* What get_next_url returned: an item that may be handed out, with the index
\* it has in the queue; or None, and then the queue holds no such item.
ReturnedRight ==
  /\ pc = "got" =>
       /\ next_url # None
       /\ Retryable(next_url[1].item)
       /\ next_url[1].index >= 0 /\ next_url[1].index < Len(items)
       /\ items[next_url[1].index + 1] = next_url[1].item
  /\ pc = "ended" =>
       /\ next_url = None
       /\ \A i \in 1..Len(items) : ~Retryable(items[i])

\* C28: get_next_url always returns (its scan ends); it returns only an item
\* that is pending, or failed with fewer than 3 retries, with that item's
\* own index; and it returns None only when the queue holds no such item,
\* wherever the scan started.
C28_GetNextUrl == []ReturnedRight /\ ((pc = "scan") ~> (pc # "scan"))

\* A scan that began at the last item, passed it and the first item over
\* (both completed), and returned the second, which had failed twice.
C28_Witness ==
  /\ pc = "got"
  /\ Len(items) = 3
  /\ start_index = 2
  /\ next_url[1].index = 1
  /\ next_url[1].item.status = "failed"
  /\ next_url[1].item.retry_count = 2
  /\ items[1].status = "completed"
  /\ items[3].status = "completed"

\* A step changes the retry count of an item only by one, and only when it
\* sets the item's status to "failed".
RetryOnlyOnFailed ==
  \A i \in 1..Len(items) :
    (Len(items') = Len(items) /\ items'[i].retry_count # items[i].retry_count)
      => /\ items'[i].retry_count = items[i].retry_count + 1
         /\ items'[i].status = "failed"

\* No URL is handed out more than 3 times, and none after its third failure.
HandedAtMostThrice ==
  /\ \A i \in 1..Len(handed) : handed[i] <= 3
  /\ pc = "got" => next_url[1].item.retry_count < 3

\* When the loop has ended every item is completed, or failed three times.
EndsSettled ==
  pc = "ended" =>
    \A i \in 1..Len(items) :
      \/ items[i].status = "completed"
      \/ items[i].status = "failed" /\ items[i].retry_count = 3

\* C29: only update_status(index, "failed") changes a retry count, by one;
\* a URL is handed out at most 3 times and never after its third failure;
\* and the loop, run without a limit, ends with every item completed or
\* failed with retry_count 3.
C29_RetriesBounded ==
  [][RetryOnlyOnFailed]_vars /\ [](HandedAtMostThrice /\ EndsSettled)

\* Item i of a reloaded queue is not completed and has failed fewer than 3
\* times.
Unfinished(i) ==
  /\ pc = "loop"
  /\ runs > 1
  /\ i <= Len(items)
  /\ items[i].status # "completed"
  /\ items[i].retry_count < 3

HandedOut(i) == pc = "got" /\ next_url[1].index = i - 1

\* C30: after the process stopped and a new run reloaded the saved queue,
\* every item that is not completed and has failed fewer than 3 times is
\* eventually handed out again, an item saved as in_progress included.
C30_ResumedAfterRestart ==
  \A i \in 1..MaxUrls : Unfinished(i) ~> HandedOut(i)

====
